---- MODULE Spec2Model ----
(***************************************************************************)
(* A model of the collision / ground / orientation core of the rotating-  *)
(* gravity platformer: the geometry of src/src/collisions.rs, its         *)
(* per-entity CollisionEvents buffers and detection drivers, the resolver *)
(* systems of src/src/physics.rs, the input systems of src/src/player.rs  *)
(* and the goal consumer of src/src/goals.rs, run by the schedules the    *)
(* plugins register them in.                                               *)
(*                                                                         *)
(* Numbers.  f32 lengths are modelled exactly on a lattice of half pixels  *)
(* (Px(1) = 2 model units) so that size / 2 is exact.  A time of impact is *)
(* an extended number: finite, +inf, -inf or NaN, as the slab division of  *)
(* Ray::intersect_aabb produces them.  Motion vectors have components that *)
(* are 0 or of one common magnitude m (the eight compass directions); a    *)
(* time of impact along such a vector is t * k with t measured along the   *)
(* axis and k = 1 (cardinal) or sqrt 2 (diagonal); it is kept as the pair  *)
(* (t, k2 = k*k).  Rotations by PI and PI/2 are taken as exact.            *)
(***************************************************************************)
EXTENDS Integers, Sequences, FiniteSets, TLC

----------------------------------------------------------------------------
(* Vec2 *)

\* n pixels in model units (half pixels)
Px(n) == 2 * n

Abs(n) == IF n < 0 THEN -n ELSE n

Sgn(n) == IF n < 0 THEN -1 ELSE IF n > 0 THEN 1 ELSE 0

ZERO == <<0, 0>>

VAdd(a, b) == <<a[1] + b[1], a[2] + b[2]>>

VSub(a, b) == <<a[1] - b[1], a[2] - b[2]>>

VScale(k, a) == <<k * a[1], k * a[2]>>

VMul(a, b) == <<a[1] * b[1], a[2] * b[2]>>

VAbs(a) == <<Abs(a[1]), Abs(a[2])>>

VHalf(a) == <<a[1] \div 2, a[2] \div 2>>

Dot(a, b) == a[1] * b[1] + a[2] * b[2]

VClamp(a, lo, hi) ==
    LET c(x, l, h) == IF x < l THEN l ELSE IF x > h THEN h ELSE x
    IN  <<c(a[1], lo[1], hi[1]), c(a[2], lo[2], hi[2])>>

\* Vec2::from_angle(PI / 2.).rotate(v) and Vec2::from_angle(-PI / 2.).rotate(v)
RotCCW(a) == <<-a[2], a[1]>>

RotCW(a) == <<a[2], -a[1]>>

\* the magnitude m of a compass vector (each component 0 or +-m)
AxisLen(a) == IF Abs(a[1]) > Abs(a[2]) THEN Abs(a[1]) ELSE Abs(a[2])

\* k*k for a compass vector: 1 when cardinal, 2 when diagonal
K2(a) == IF a[1] # 0 /\ a[2] # 0 THEN 2 ELSE 1

\* normalize(a) * k, a vector of signs
SgnVec(a) == <<Sgn(a[1]), Sgn(a[2])>>

----------------------------------------------------------------------------
(* Option *)

None == [some |-> FALSE]

Some(x) == [some |-> TRUE, val |-> x]

----------------------------------------------------------------------------
(* Direction, GravityDirection  (physics.rs) *)

Direction == {"Up", "Down", "Left", "Right"}

reverse(d) ==
    CASE d = "Down" -> "Up" [] d = "Up" -> "Down"
      [] d = "Left" -> "Right" [] d = "Right" -> "Left"

as_vec2(d) ==
    CASE d = "Down" -> <<0, -1>> [] d = "Up" -> <<0, 1>>
      [] d = "Left" -> <<-1, 0>> [] d = "Right" -> <<1, 0>>

ccw(d) ==
    CASE d = "Down" -> "Right" [] d = "Up" -> "Left"
      [] d = "Left" -> "Down" [] d = "Right" -> "Up"

\* variant of cw: a half turn
cw_half(d) == reverse(d)

cw(d) ==
    CASE d = "Down" -> "Left" [] d = "Up" -> "Right"
      [] d = "Left" -> "Up" [] d = "Right" -> "Down"

\* variant of from_vec2: the horizontal unit vectors are not matched
from_vec2_vertical(source) ==
    IF source = <<0, -1>> THEN Some("Down")
    ELSE IF source = <<0, 1>> THEN Some("Up")
    ELSE None

from_vec2(source) ==
    IF source = <<0, -1>> THEN Some("Down")
    ELSE IF source = <<0, 1>> THEN Some("Up")
    ELSE IF source = <<-1, 0>> THEN Some("Left")
    ELSE IF source = <<1, 0>> THEN Some("Right")
    ELSE None

forward(g) ==
    CASE g = "Down" -> "Left" [] g = "Up" -> "Right"
      [] g = "Left" -> "Up" [] g = "Right" -> "Down"

----------------------------------------------------------------------------
(* f32 times of impact: finite, +inf, -inf, NaN *)

Fin(n, k2) == [inf |-> 0, v |-> n, k2 |-> k2]

PInf == [inf |-> 1, v |-> 0, k2 |-> 1]

NInf == [inf |-> -1, v |-> 0, k2 |-> 1]

NaN == [inf |-> 2, v |-> 0, k2 |-> 1]

is_nan(a) == a.inf = 2

\* the sign-preserving square of a finite time t * sqrt(k2)
SSq(a) == Sgn(a.v) * a.v * a.v * a.k2

\* a < b on f32: false whenever an operand is NaN
FLt(a, b) ==
    IF is_nan(a) \/ is_nan(b) THEN FALSE
    ELSE IF a.inf # 0 \/ b.inf # 0
         THEN (a.inf = -1 /\ b.inf # -1) \/ (b.inf = 1 /\ a.inf # 1)
         ELSE SSq(a) < SSq(b)

FGt(a, b) == FLt(b, a)

FGe(a, b) ==
    IF is_nan(a) \/ is_nan(b) THEN FALSE ELSE ~FLt(a, b)

\* offset * n_inv on one axis, n_inv = ray.normalize().recip(): the
\* direction component d is +0.0 (recip +inf), or +-m
SlabTime(off, d, k2) ==
    IF d = 0
    THEN IF off > 0 THEN PInf ELSE IF off < 0 THEN NInf ELSE NaN
    ELSE Fin(off * Sgn(d), k2)

----------------------------------------------------------------------------
(* Ray::intersect_aabb, c_min, c_max  (collisions.rs) *)

\* variant of c_min: a NaN time is not set aside
c_min_plain(a, b) == IF FLt(a.toi, b.toi) THEN a ELSE b

\* variant of c_min: the later of the two times is taken
c_min_later(a, b) ==
    IF FGt(a.toi, b.toi) \/ (~is_nan(a.toi) /\ is_nan(b.toi)) THEN a ELSE b

c_min(a, b) ==
    IF FLt(a.toi, b.toi) \/ (~is_nan(a.toi) /\ is_nan(b.toi)) THEN a ELSE b

\* variant of c_max: a NaN time is not set aside
c_max_plain(a, b) == IF FGt(a.toi, b.toi) THEN a ELSE b

c_max(a, b) ==
    IF FGt(a.toi, b.toi) \/ (~is_nan(a.toi) /\ is_nan(b.toi)) THEN a ELSE b

RayIntersection(toi, normal, ray_origin, ray) ==
    [toi |-> toi, point |-> ZERO, normal |-> normal,
     ray_origin |-> ray_origin, ray_direction |-> ray]

\* variant of RayLength: the ray reaches twice as far
RayLengthDoubled(ray) == Fin(2 * AxisLen(ray), K2(ray))

\* ray.0.length() of a compass vector
RayLength(ray) == Fin(AxisLen(ray), K2(ray))

\* variant of PointAt: the point lies one model unit before the time of impact
PointShort(ray_origin, toi, ray) ==
    VAdd(ray_origin, VScale(toi.v - 1, SgnVec(ray)))

\* ray_origin + toi * ray.0.normalize(), for a finite toi
PointAt(ray_origin, toi, ray) == VAdd(ray_origin, VScale(toi.v, SgnVec(ray)))

\* variant of ray_misses: the order of the two times is not looked at
ray_misses_unordered(tmin, tmax, len) ==
    \/ (FLt(tmin.toi, Fin(0, 1)) /\ FLt(tmax.toi, Fin(0, 1)))
    \/ (FLt(tmin.toi, Fin(0, 1)) /\ FGt(tmax.toi, len))
    \/ (FGt(tmin.toi, Fin(0, 1)) /\ FGe(tmin.toi, len))

\* variant of ray_misses: a ray that ends before the box is not a miss
ray_misses_reaching(tmin, tmax, len) ==
    \/ FLt(tmax.toi, tmin.toi)
    \/ (FLt(tmin.toi, Fin(0, 1)) /\ FLt(tmax.toi, Fin(0, 1)))
    \/ (FLt(tmin.toi, Fin(0, 1)) /\ FGt(tmax.toi, len))

\* the ray misses the box, points away from it, is contained in it, or ends
\* before it
ray_misses(tmin, tmax, len) ==
    \/ FLt(tmax.toi, tmin.toi)
    \/ (FLt(tmin.toi, Fin(0, 1)) /\ FLt(tmax.toi, Fin(0, 1)))
    \/ (FLt(tmin.toi, Fin(0, 1)) /\ FGt(tmax.toi, len))
    \/ (FGt(tmin.toi, Fin(0, 1)) /\ FGe(tmin.toi, len))

intersect_aabb(ray_origin, ray, box_center, box_size) ==
    LET bottom_left == VSub(VSub(box_center, VHalf(box_size)), ray_origin)
        top_right == VSub(VAdd(box_center, VHalf(box_size)), ray_origin)
        k2 == K2(ray)
        left == RayIntersection(SlabTime(bottom_left[1], ray[1], k2),
                                as_vec2("Left"), ray_origin, ray)
        right == RayIntersection(SlabTime(top_right[1], ray[1], k2),
                                 as_vec2("Right"), ray_origin, ray)
        top == RayIntersection(SlabTime(top_right[2], ray[2], k2),
                               as_vec2("Up"), ray_origin, ray)
        bottom == RayIntersection(SlabTime(bottom_left[2], ray[2], k2),
                                  as_vec2("Down"), ray_origin, ray)
        tmin == c_max(c_min(left, right), c_min(top, bottom))
        tmax == c_min(c_max(left, right), c_max(top, bottom))
        zero == Fin(0, 1)
        len == RayLength(ray)
    IN  IF ray_misses(tmin, tmax, len)
        THEN None
        ELSE IF FGe(tmin.toi, zero)
        THEN Some([tmin EXCEPT !.point = PointAt(ray_origin, tmin.toi, ray)])
        ELSE Some([tmax EXCEPT !.point = PointAt(ray_origin, tmax.toi, ray)])

----------------------------------------------------------------------------
(* Rect::inter_aabb, Rect::sweep_aabb  (collisions.rs) *)

\* variant of separated: only boxes apart on both axes are apart
separated_on_both(p) == p[1] < 0 /\ p[2] < 0

\* variant of separated: boxes that touch are apart
separated_or_touching(p) == p[1] <= 0 \/ p[2] <= 0

\* inter_aabb: no intersection for this penetration
separated(p) == p[1] < 0 \/ p[2] < 0

\* variant of x_axis_chosen: equal penetrations resolve along x
x_axis_on_ties(p) == p[1] <= p[2]

\* inter_aabb: the intersection is resolved along x
x_axis_chosen(p) == p[1] < p[2]

\* variant of push_sign: the push is towards +x or +y always
push_sign_fixed(d) == 1

\* variant of push_sign: a box at the same coordinate is pushed backwards
push_sign_strict(d) == IF d <= 0 THEN -1 ELSE 1

\* variant of push_sign: the box is pushed towards the other
push_sign_inwards(d) == IF d < 0 THEN 1 ELSE -1

\* inter_aabb: sx, sy
push_sign(d) == IF d < 0 THEN -1 ELSE 1

\* variant of inter_aabb: the push-out has both penetrations
inter_aabb_diagonal(a_pos, a_size, b_pos, b_size) ==
    LET d == VSub(b_pos, a_pos)
        p == VSub(VHalf(VAdd(b_size, a_size)), VAbs(d))
        sx == push_sign(d[1])
        sy == push_sign(d[2])
    IN  IF separated(p) THEN None
        ELSE Some([delta |-> <<p[1] * sx, p[2] * sy>>,
                   normal |-> <<sx, sy>>,
                   point |-> <<a_pos[1] + sx * (a_size[1] \div 2),
                               a_pos[2] + sy * (a_size[2] \div 2)>>])

inter_aabb(a_pos, a_size, b_pos, b_size) ==
    LET d == VSub(b_pos, a_pos)
        p == VSub(VHalf(VAdd(b_size, a_size)), VAbs(d))
    IN  IF separated(p) THEN None
        ELSE IF x_axis_chosen(p)
        THEN LET sx == push_sign(d[1])
             IN  Some([delta |-> <<p[1] * sx, 0>>,
                       normal |-> <<sx, 0>>,
                       point |-> <<a_pos[1] + sx * (a_size[1] \div 2), b_pos[2]>>])
        ELSE LET sy == push_sign(d[2])
             IN  Some([delta |-> <<0, p[2] * sy>>,
                       normal |-> <<0, sy>>,
                       point |-> <<b_pos[1], a_pos[2] + sy * (a_size[2] \div 2)>>])

Sweep(position, time, normal) ==
    [position |-> position, time |-> time, normal |-> normal]

\* variant of sweep_aabb: a box that does not move hits nothing
sweep_aabb_moving_only(a_pos, a_size, b_pos, b_size, delta) ==
    IF delta = ZERO THEN None
    ELSE LET hit == intersect_aabb(a_pos, delta, b_pos, VAdd(b_size, a_size))
         IN  IF hit.some
             THEN Some(Sweep(PointAt(a_pos, hit.val.toi, delta), hit.val.toi,
                             hit.val.normal))
             ELSE None

\* variant of sweep_aabb: the ray is cast against b as it is, not inflated
sweep_aabb_uninflated(a_pos, a_size, b_pos, b_size, delta) ==
    IF delta = ZERO
    THEN LET hit == inter_aabb(b_pos, b_size, a_pos, a_size)
         IN  IF hit.some
             THEN Some(Sweep(VSub(a_pos, hit.val.delta), Fin(0, 1), hit.val.normal))
             ELSE None
    ELSE LET hit == intersect_aabb(a_pos, delta, b_pos, b_size)
         IN  IF hit.some
             THEN Some(Sweep(PointAt(a_pos, hit.val.toi, delta), hit.val.toi,
                             hit.val.normal))
             ELSE None

sweep_aabb(a_pos, a_size, b_pos, b_size, delta) ==
    IF delta = ZERO
    THEN LET hit == inter_aabb(b_pos, b_size, a_pos, a_size)
         IN  IF hit.some
             THEN Some(Sweep(VSub(a_pos, hit.val.delta), Fin(0, 1), hit.val.normal))
             ELSE None
    ELSE LET hit == intersect_aabb(a_pos, delta, b_pos, VAdd(b_size, a_size))
         IN  IF hit.some
             THEN Some(Sweep(PointAt(a_pos, hit.val.toi, delta), hit.val.toi,
                             hit.val.normal))
             ELSE None

\* the unit-test vectors of collisions.rs, in whole model units
TestSweep(a_pos, delta) == sweep_aabb(a_pos, <<4, 4>>, ZERO, <<6, 6>>, delta)

----------------------------------------------------------------------------
(* Constants and settings *)

\* constants.rs PLAYER_DIM, player.rs RAY_LENGTH, ground.rs / goals.rs Rect sizes
PLAYER_DIM == <<Px(30), Px(20)>>

RAY_LENGTH == Px(15)

GROUND_DIM == <<Px(24), Px(24)>>

GOAL_DIM == <<Px(15), Px(15)>>

\* PhysicsSettings (loaded from settings.physics.ron), per fixed step:
\* Time::delta_secs() is one step, a speed is a displacement per step
Step == Px(12)

initial_jump_speed == 2 * Step

gravity_pressed == Step

gravity_unpressed == 2 * Step

horizontal_speed == Step

max_speed == Step

\* ActionState<MovementAction>: the sums of the keys pressed in a frame
MovementInputs == {<<0, 0>>, <<-1, 0>>}

\* player_dies: the level bounds
DeathLo == Px(-100)

DeathHi == Px(800)

\* FixedUpdate runs this many times at most between two runs of Update
MaxFixedRuns == 2

\* Update runs this many frames in a row at most without a run of FixedUpdate
MaxStarved == 1

\* observer: rotations in one airborne phase are counted up to this number
MaxCounted == 2

\* the side of the square window (in pixels, from the level's corner) in
\* which the model follows the player: time does not advance for a player
\* whose centre is outside it
View == 96

----------------------------------------------------------------------------
(* The level: entities, their components and their child colliders.  Every  *)
(* collider child carries the GlobalTransform and Parent the queries of the *)
(* detection drivers select on.                                             *)

\* the level's lower left corner, in pixels
LevelCorner == <<-124, -124>>

\* Ground cells of the int grid (24 px cells): a floor and a wall at its left
GroundCells == <<<<1, 0>>, <<2, 0>>, <<0, 1>>, <<0, 2>>>>

GroundName(i) == <<"ground", i>>

Player == <<"player", 0>>

Goal == <<"goal", 0>>

\* the id of a goal entity that has been despawned: still the Parent of its
\* child Rect, which Entity::despawn leaves behind
DeadGoal == <<"goal", 1>>

Entities == {Player, Goal} \cup {GroundName(i) : i \in 1..Len(GroundCells)}

\* a point of the level given in pixels from the level's corner
At(x, y) == <<Px(LevelCorner[1] + x), Px(LevelCorner[2] + y)>>

CellCenter(c) == At(24 * c[1] + 12, 24 * c[2] + 12)

Spawn_Point == At(48, 36)

GoalPoint == At(48, 54)

CollisionTypes == {"Player", "Goal", "Ground"}

\* JumpState::default, GravityDirection::default, OnGround::default and the
\* components after_player_spawned inserts
PlayerBundle ==
    [translation |-> Spawn_Point,
     rotation |-> 0,
     velocity |-> ZERO,
     acceleration |-> ZERO,
     g_dir |-> "Down",
     gravity |-> 0,
     on_ground |-> FALSE,
     turned_this_jump |-> FALSE,
     last_horizontal_movement_dir |-> "Left",
     last_vertical_movement_dir |-> "Down",
     delta |-> [origin |-> Spawn_Point, ray |-> ZERO],
     rect |-> PLAYER_DIM,
     rays |-> <<VScale(RAY_LENGTH, as_vec2("Down")),
                VScale(RAY_LENGTH, as_vec2("Down"))>>]

\* variant of RayOffsets: both rays start at the centre of the player
RayCentres == <<ZERO, ZERO>>

\* the local translations of the two child rays
RayOffsets ==
    <<<<-(PLAYER_DIM[1] \div 2), -(PLAYER_DIM[2] \div 2)>>,
      <<PLAYER_DIM[1] \div 2, -(PLAYER_DIM[2] \div 2)>>>>

\* a local offset under the parent's rotation (quarter turns counterclockwise)
Rotated(v, q) ==
    CASE q = 0 -> v [] q = 1 -> RotCCW(v)
      [] q = 2 -> <<-v[1], -v[2]>> [] q = 3 -> RotCW(v)

InView(q) ==
    /\ q.translation[1] >= Px(LevelCorner[1]) /\ q.translation[1] <= Px(LevelCorner[1] + View)
    /\ q.translation[2] >= Px(LevelCorner[2]) /\ q.translation[2] <= Px(LevelCorner[2] + View)

----------------------------------------------------------------------------
(* State *)

VARIABLES
    pl,         \* the player entity's components (PlayerBundle)
    goal,       \* is the goal entity alive
    orphan,     \* is there a Rect left behind by a despawned goal
    buffer,     \* CollisionEvents::buffer of every entity ( << >> if it has none)
    panic,      \* Some(..) once a system has panicked: the program has halted
    commands,   \* deferred Commands of the running frame
    jump_held,  \* ActionState<JumpAction>: pressed at the previous frame
    sched,      \* the schedule being run
    todo,       \* the systems of that schedule which have not run yet
    fixed_runs, \* runs of FixedUpdate in this frame so far
    starved,    \* consecutive frames before this one in which FixedUpdate did not run
    last,       \* observer: the system that ran last in the running schedule
    before,     \* observer: the player's components before that system ran
    rotations,  \* observer: rotations of gravity since the player was last grounded
    geom,       \* a call of a geometry function on its own: arguments and result
    call        \* a call of a system on one entity on its own: arguments and result

\* the state of the game
world ==
    <<pl, goal, orphan, buffer, panic, commands, jump_held, sched, todo,
      fixed_runs, starved, last, before, rotations>>

vars == <<world, geom, call>>

----------------------------------------------------------------------------
(* Queries *)

\* variant of user_types_get: a parent without a classification reads as Ground
user_types_or_ground(e) ==
    IF e = Player THEN Some("Player")
    ELSE IF e = Goal /\ goal THEN Some("Goal")
    ELSE Some("Ground")

\* Query<&T>::get: the classification component of an entity
user_types_get(e) ==
    IF e = Player THEN Some("Player")
    ELSE IF e = Goal THEN (IF goal THEN Some("Goal") ELSE None)
    ELSE IF e = DeadGoal THEN None
    ELSE Some("Ground")

\* variant of collision_takers_get: every parent takes events
everyone_takes(e) == TRUE

\* Query<&mut CollisionEvents<T>>::get_mut(e).is_ok()
collision_takers_get(e) == e = Player \/ (e = Goal /\ goal)

\* variant of position_delta: no entity tracks its movement
no_delta(e) == None

\* Option<&PositionDelta> of an entity that has a buffer
position_delta(e) == IF e = Player THEN Some(pl.delta) ELSE None

\* Query<(&Rect, &GlobalTransform, &Parent)> in iteration order
Rects ==
    <<[rect |-> pl.rect, t |-> pl.translation, parent |-> Player]>>
    \o [i \in 1..Len(GroundCells) |->
          [rect |-> GROUND_DIM, t |-> CellCenter(GroundCells[i]),
           parent |-> GroundName(i)]]
    \o (IF goal THEN <<[rect |-> GOAL_DIM, t |-> GoalPoint, parent |-> Goal]>>
        ELSE << >>)
    \o (IF orphan
        THEN <<[rect |-> GOAL_DIM, t |-> GoalPoint, parent |-> DeadGoal]>>
        ELSE << >>)

\* Query<(&Ray, &GlobalTransform, &Parent)> in iteration order
Rays ==
    [i \in 1..Len(pl.rays) |->
       [ray |-> pl.rays[i],
        t |-> VAdd(pl.translation, Rotated(RayOffsets[i], pl.rotation)),
        parent |-> Player]]

----------------------------------------------------------------------------
(* Detection drivers  (collisions.rs) *)

CollisionEvent(entity, user_type, kind, data) ==
    [entity |-> entity, user_type |-> user_type, kind |-> kind, data |-> data]

\* one test of a driver: the owner whose buffer takes the event, the owner
\* collided with, and the collision found (None if the taker has no buffer)
Attempt(taker, other, kind, collision) ==
    [taker |-> taker, other |-> other, kind |-> kind, collision |-> collision]

\* variant of RayToBox: the event goes to the owner of the box
RayToBoxSwapped(r, b) ==
    Attempt(b.parent, r.parent, "Ray",
            IF collision_takers_get(r.parent)
            THEN intersect_aabb(r.t, r.ray, b.t, b.rect)
            ELSE None)

\* the body of the closure for one (ray, rect) pair
RayToBox(r, b) ==
    Attempt(r.parent, b.parent, "Ray",
            IF collision_takers_get(r.parent)
            THEN intersect_aabb(r.t, r.ray, b.t, b.rect)
            ELSE None)

\* one direction of a pair: the rect a swept against b
SweepInto(a, b) ==
    Attempt(a.parent, b.parent, "Aabb",
            IF collision_takers_get(a.parent)
            THEN LET d == position_delta(a.parent)
                     origin == IF d.some THEN d.val.origin ELSE a.t
                     ray == IF d.some THEN d.val.ray ELSE ZERO
                 IN  sweep_aabb(origin, a.rect, b.t, b.rect, ray)
            ELSE None)

\* rays.iter().for_each(rects.iter().for_each(..)): the tests in order
RayAttempts(rays, rects) ==
    [k \in 1..(Len(rays) * Len(rects)) |->
       RayToBox(rays[((k - 1) \div Len(rects)) + 1],
                rects[((k - 1) % Len(rects)) + 1])]

\* rects.iter_combinations(): the index pairs i < j in lexicographic order
Combinations(n) ==
    LET all == [k \in 1..(n * n) |-> <<((k - 1) \div n) + 1, ((k - 1) % n) + 1>>]
        Ordered(p) == p[1] < p[2]
    IN  SelectSeq(all, Ordered)

\* the two tests of every combination, first r1 against r2, then r2 against r1
BoxAttempts(rects) ==
    LET pairs == Combinations(Len(rects))
    IN  [k \in 1..(2 * Len(pairs)) |->
           LET p == pairs[(k + 1) \div 2]
           IN  IF k % 2 = 1 THEN SweepInto(rects[p[1]], rects[p[2]])
               ELSE SweepInto(rects[p[2]], rects[p[1]])]

\* buffer.push(CollisionEvent { user_type: user_types.get(..).unwrap() .. })
\* for every collision found, in order, up to the first unwrap that panics
Push(buf, attempts) ==
    LET bad == {k \in 1..Len(attempts) :
                  /\ attempts[k].collision.some
                  /\ ~user_types_get(attempts[k].other).some}
        stop == IF bad = {} THEN Len(attempts) + 1
                ELSE CHOOSE k \in bad : \A j \in bad : k <= j
        done == SubSeq(attempts, 1, stop - 1)
        Event(a) == CollisionEvent(a.other, user_types_get(a.other).val,
                                   a.kind, a.collision.val)
    IN  [buf |-> [e \in Entities |->
                    LET Mine(a) == a.collision.some /\ a.taker = e
                        hits == SelectSeq(done, Mine)
                    IN  buf[e] \o [i \in 1..Len(hits) |-> Event(hits[i])]],
         panic |-> IF bad = {} THEN None
                   ELSE Some([taker |-> attempts[stop].taker,
                              entity |-> attempts[stop].other,
                              kind |-> attempts[stop].kind])]

check_ray_to_box_collisions(buf) == Push(buf, RayAttempts(Rays, Rects))

check_box_to_box_collisions(buf) == Push(buf, BoxAttempts(Rects))

\* variant of cleanup_buffers: the buffers are left as they are
cleanup_keep(buf) == buf

\* buffer.clear() for every CollisionEvents
cleanup_buffers(buf) == [e \in Entities |-> << >>]

----------------------------------------------------------------------------
(* Physics systems  (physics.rs) *)

\* a.angle_between(b) == 0.0 for compass vectors
angle_is_zero(a, b) == a # ZERO /\ b # ZERO /\ SgnVec(a) = SgnVec(b)

\* variant of should_turn: the turned_this_jump guard is dropped
turn_again(q, current_v_direction) ==
    /\ current_v_direction # q.last_vertical_movement_dir
    /\ current_v_direction = q.g_dir

\* variant of turns_clockwise: the sense of the turn is swapped
turns_counter(q, current_h_direction) == current_h_direction # forward(q.g_dir)

\* the sense of the turn in rotate_gravity
turns_clockwise(q, current_h_direction) == current_h_direction = forward(q.g_dir)

\* the condition of the turn in rotate_gravity
should_turn(q, current_v_direction) ==
    /\ current_v_direction # q.last_vertical_movement_dir
    /\ current_v_direction = q.g_dir
    /\ ~q.turned_this_jump

\* variant of current_direction: at speed zero the direction of the axis is taken
current_direction_of_axis(speed, dir, kept) ==
    IF speed < 0 THEN reverse(dir) ELSE dir

\* the direction of motion along an axis, from the speed along dir
current_direction(speed, dir, kept) ==
    IF speed > 0 THEN dir
    ELSE IF speed < 0 THEN reverse(dir)
    ELSE kept

\* variant of swap_rect: the box keeps its size
swap_rect_kept(rect) == rect

\* rotate colliders: the width and the height of a child box change places
swap_rect(rect) == <<rect[2], rect[1]>>

rotate_gravity(q) ==
    LET g == q.g_dir
        v_speed == Dot(as_vec2(g), q.velocity)
        current_v_direction ==
            current_direction(v_speed, g, q.last_vertical_movement_dir)
        h_speed == Dot(as_vec2(forward(g)), q.velocity)
        current_h_direction ==
            current_direction(h_speed, forward(g),
                              q.last_horizontal_movement_dir)
        turn == should_turn(q, current_v_direction)
        clockwise == turns_clockwise(q, current_h_direction)
        new_g == IF clockwise THEN cw(g) ELSE ccw(g)
        turned ==
            [q EXCEPT
               !.acceleration = ZERO,
               !.turned_this_jump = TRUE,
               !.rotation = (@ + (IF clockwise THEN 3 ELSE 1)) % 4,
               !.g_dir = new_g,
               !.rect = swap_rect(q.rect),
               !.rays = [i \in 1..Len(q.rays) |->
                           VScale(AxisLen(q.rays[i]), as_vec2(new_g))]]
    IN  [(IF turn THEN turned ELSE q) EXCEPT
           !.last_horizontal_movement_dir = current_h_direction,
           !.last_vertical_movement_dir = current_v_direction]

apply_gravity(q) ==
    IF q.on_ground
    THEN [q EXCEPT
            !.velocity = VMul(@, VAbs(as_vec2(forward(q.g_dir)))),
            !.acceleration = VMul(@, VAbs(as_vec2(forward(q.g_dir))))]
    ELSE [q EXCEPT
            !.acceleration = VAdd(@, VScale(q.gravity, as_vec2(q.g_dir)))]

apply_acceleration(q) ==
    LET max_velocity == <<max_speed, max_speed>>
    IN  [q EXCEPT
           !.velocity = VClamp(VAdd(@, q.acceleration),
                               VScale(-1, max_velocity), max_velocity)]

apply_velocity(q) ==
    LET last_translation == q.translation
        translation == VAdd(q.translation, q.velocity)
    IN  [q EXCEPT
           !.translation = translation,
           !.delta = [origin |-> last_translation,
                      ray |-> VSub(translation, last_translation)]]

\* variant of GroundRayHit: the kind of the event is not looked at
AnyGroundHit(q, buf) ==
    \E i \in 1..Len(buf) : buf[i].user_type = "Ground"

\* does the scan of falling_detection find a ground ray along gravity
GroundRayHit(q, buf) ==
    \E i \in 1..Len(buf) :
        /\ buf[i].kind = "Ray"
        /\ buf[i].user_type = "Ground"
        /\ angle_is_zero(buf[i].data.ray_direction, as_vec2(q.g_dir))

\* variant of falling_detection: leaving the ground resets turned_this_jump
falling_resets(q, buf) ==
    IF ~q.on_ground THEN q
    ELSE IF ~GroundRayHit(q, buf)
    THEN [q EXCEPT !.on_ground = FALSE, !.turned_this_jump = FALSE]
    ELSE q

falling_detection(q, buf) ==
    IF ~q.on_ground THEN q
    ELSE IF ~GroundRayHit(q, buf) THEN [q EXCEPT !.on_ground = FALSE]
    ELSE q

\* the scan of ground_detection: the first ground sweep of least time
\* variant of FirstMinSweep: of sweeps of equal time the last one is kept
RECURSIVE LastMinSweep(_, _, _)
LastMinSweep(buf, i, collision) ==
    IF i > Len(buf) THEN collision
    ELSE IF buf[i].kind = "Aabb" /\ buf[i].user_type = "Ground"
            /\ (~collision.some \/ ~FGt(buf[i].data.time, collision.val.time))
    THEN LastMinSweep(buf, i + 1, Some(buf[i].data))
    ELSE LastMinSweep(buf, i + 1, collision)

RECURSIVE FirstMinSweep(_, _, _)
FirstMinSweep(buf, i, collision) ==
    IF i > Len(buf) THEN collision
    ELSE IF buf[i].kind = "Aabb" /\ buf[i].user_type = "Ground"
            /\ (~collision.some \/ FLt(buf[i].data.time, collision.val.time))
    THEN FirstMinSweep(buf, i + 1, Some(buf[i].data))
    ELSE FirstMinSweep(buf, i + 1, collision)

\* variant of TouchingGround: only the sweep of least time is looked at
WinnerIsFloor(q, buf) ==
    LET collision == FirstMinSweep(buf, 1, None)
    IN  /\ collision.some
        /\ angle_is_zero(collision.val.normal, as_vec2(reverse(q.g_dir)))

\* the scan of ground_detection: is some ground sweep a floor
TouchingGround(q, buf) ==
    \E i \in 1..Len(buf) :
        /\ buf[i].kind = "Aabb"
        /\ buf[i].user_type = "Ground"
        /\ angle_is_zero(buf[i].data.normal, as_vec2(reverse(q.g_dir)))

\* variant of ClampInto: the component along the normal is dropped always
ClampAlways(v, normal) == VMul(v, VAbs(RotCCW(normal)))

\* v *= tangent.abs() when v points into the surface
ClampInto(v, normal) ==
    IF Dot(v, VScale(-1, normal)) > 0 THEN VMul(v, VAbs(RotCCW(normal))) ELSE v

\* variant of strikes_overhead: the face struck is the one underfoot
strikes_underfoot(dir, g) == dir.some /\ dir.val = reverse(g)

\* Direction::from_vec2(collision.normal).unwrap() == g.0
strikes_overhead(dir, g) == dir.some /\ dir.val = g

\* the result is the entity and whether Direction::from_vec2(..).unwrap() panicked
ground_detection(q, buf) ==
    LET collision == FirstMinSweep(buf, 1, None)
        touching_ground == TouchingGround(q, buf)
        n == collision.val.normal
        dir == from_vec2(n)
        q1 == IF collision.some
              THEN [q EXCEPT
                      !.translation = VAdd(collision.val.position, VScale(Px(1), n)),
                      !.velocity = ClampInto(@, n),
                      !.acceleration = ClampInto(@, n),
                      !.turned_this_jump =
                          IF strikes_overhead(dir, q.g_dir) THEN TRUE ELSE @]
              ELSE q
    IN  IF collision.some /\ ~dir.some
        THEN [q |-> [q1 EXCEPT !.turned_this_jump = q.turned_this_jump],
              panicked |-> TRUE]
        ELSE [q |-> IF touching_ground THEN [q1 EXCEPT !.on_ground = TRUE] ELSE q1,
              panicked |-> FALSE]

----------------------------------------------------------------------------
(* Input systems  (player.rs) *)

\* variant of control_jump: the jump is taken off the ground as well
control_jump_midair(q, just_pressed, pressed) ==
    LET j == IF just_pressed
             THEN [q EXCEPT
                     !.velocity = VSub(@, VScale(initial_jump_speed,
                                                 as_vec2(q.g_dir))),
                     !.on_ground = FALSE,
                     !.turned_this_jump = FALSE]
             ELSE q
    IN  [j EXCEPT !.gravity = IF pressed THEN gravity_pressed
                              ELSE gravity_unpressed]

\* variant of control_jump: the impulse is along the gravity
control_jump_downwards(q, just_pressed, pressed) ==
    IF just_pressed /\ ~q.on_ground THEN q
    ELSE LET j == IF just_pressed
                  THEN [q EXCEPT
                          !.velocity = VAdd(@, VScale(initial_jump_speed,
                                                      as_vec2(q.g_dir))),
                          !.on_ground = FALSE,
                          !.turned_this_jump = FALSE]
                  ELSE q
         IN  [j EXCEPT !.gravity = IF pressed THEN gravity_pressed
                                   ELSE gravity_unpressed]

control_jump(q, just_pressed, pressed) ==
    IF just_pressed /\ ~q.on_ground THEN q    \* return
    ELSE LET j == IF just_pressed
                  THEN [q EXCEPT
                          !.velocity = VSub(@, VScale(initial_jump_speed,
                                                      as_vec2(q.g_dir))),
                          !.on_ground = FALSE,
                          !.turned_this_jump = FALSE]
                  ELSE q
         IN  [j EXCEPT !.gravity = IF pressed THEN gravity_pressed
                                   ELSE gravity_unpressed]

control_movement(q, temp_v) ==
    LET val == Dot(as_vec2(forward(q.g_dir)), temp_v)
    IN  IF val # 0
        THEN [q EXCEPT
                !.velocity =
                    VAdd(VMul(@, VAbs(as_vec2(q.g_dir))),
                         VScale(horizontal_speed * Sgn(val),
                                as_vec2(forward(q.g_dir))))]
        ELSE [q EXCEPT !.velocity = VMul(@, VAbs(as_vec2(q.g_dir)))]

\* player_dies: has the player left the level
OutOfLevel(q) ==
    \/ q.translation[2] < DeathLo \/ q.translation[2] > DeathHi
    \/ q.translation[1] > DeathHi \/ q.translation[1] < DeathLo

\* goal_collision_detection: does the drained buffer hold a player event
GoalTouched(buf) == \E i \in 1..Len(buf) : buf[i].user_type = "Player"

----------------------------------------------------------------------------
(* Schedules *)

\* PlayerPlugin: InputProcessing, inserted after PreUpdate
InputProcessing == {"control_jump", "control_movement"}

\* PhysicsPlugin and CollisionPlugin::add_systems_to_fixed_update
FixedUpdate ==
    {"rotate_gravity", "apply_gravity", "apply_acceleration", "apply_velocity",
     "cleanup_buffers", "check_ray_to_box_collisions",
     "check_box_to_box_collisions"}

\* PhysicsPlugin, GoalPlugin, PlayerPlugin: systems added to Update
Update ==
    {"ground_detection", "falling_detection", "goal_collision_detection",
     "player_dies"}

\* the systems a system is ordered after: .chain() of the physics systems,
\* Collision.after(PhysicsSet), TransformPropagateBefore before Produce.
\* Nothing orders the systems of InputProcessing or of Update: the model
\* follows both orders of ground_detection and falling_detection, and one
\* order of the others.  control_jump and control_movement write different
\* components of the velocity and read nothing the other writes, and
\* goal_collision_detection touches the goal's buffer and the command queue
\* only, so their place does not change the result; player_dies is taken to
\* read the Transform before ground_detection writes it.
After(s) ==
    CASE s = "apply_gravity" -> {"rotate_gravity"}
      [] s = "apply_acceleration" -> {"apply_gravity"}
      [] s = "apply_velocity" -> {"apply_acceleration"}
      [] s = "cleanup_buffers" -> {"apply_velocity"}
      [] s = "check_ray_to_box_collisions" -> {"cleanup_buffers"}
      [] s = "check_box_to_box_collisions" -> {"cleanup_buffers"}
      [] s = "control_movement" -> {"control_jump"}
      [] s = "player_dies" -> {"goal_collision_detection"}
      [] s = "ground_detection" -> {"player_dies"}
      [] s = "falling_detection" -> {"player_dies"}
      [] OTHER -> {}

Runs(s) ==
    /\ ~panic.some
    /\ s \in todo
    /\ After(s) \cap todo = {}
    /\ todo' = todo \ {s}
    /\ last' = s
    /\ before' = pl
    /\ UNCHANGED <<geom, call>>

Done(schedule) == ~panic.some /\ sched = schedule /\ todo = {}

\* observer: the rotations counted after a step from q to q2
Counted(q, q2, n) ==
    IF q2.on_ground THEN 0
    ELSE IF q2.g_dir # q.g_dir THEN (IF n < MaxCounted THEN n + 1 ELSE n)
    ELSE n

TypeOK ==
    /\ goal \in BOOLEAN /\ orphan \in BOOLEAN
    /\ sched \in {"InputProcessing", "FixedUpdate", "Update"}
    /\ todo \subseteq (InputProcessing \cup FixedUpdate \cup Update)
    /\ fixed_runs \in 0..MaxFixedRuns
    /\ starved \in 0..MaxStarved
    /\ jump_held \in BOOLEAN
    /\ commands \subseteq {"despawn", "respawn"}
    /\ pl.g_dir \in Direction
    /\ pl.on_ground \in BOOLEAN /\ pl.turned_this_jump \in BOOLEAN
    /\ rotations \in 0..MaxCounted

\* no function is being called on its own
NoCall == [op |-> "none"]

Init ==
    /\ geom = NoCall
    /\ call = NoCall
    /\ pl = PlayerBundle
    /\ goal = TRUE
    /\ orphan = FALSE
    /\ buffer = [e \in Entities |-> << >>]
    /\ panic = None
    /\ commands = {}
    /\ jump_held = FALSE
    /\ sched = "InputProcessing"
    /\ todo = InputProcessing
    /\ fixed_runs = 0
    /\ starved = 0
    /\ last = "spawn"
    /\ before = PlayerBundle
    /\ rotations = 0

----------------------------------------------------------------------------
(* The systems as steps *)

ControlJump ==
    /\ Runs("control_jump")
    /\ \E pressed \in BOOLEAN :
        /\ pl' = control_jump(pl, pressed /\ ~jump_held, pressed)
        /\ jump_held' = pressed
    /\ rotations' = Counted(pl, pl', rotations)
    /\ UNCHANGED <<goal, orphan, buffer, panic, commands, sched, fixed_runs, starved>>

ControlMovement ==
    /\ Runs("control_movement")
    /\ \E temp_v \in MovementInputs : pl' = control_movement(pl, temp_v)
    /\ UNCHANGED <<goal, orphan, buffer, panic, commands, jump_held, sched,
                   fixed_runs, starved, rotations>>

\* RunFixedMainLoop: FixedUpdate runs zero or more times before Update
RunFixedUpdate ==
    /\ Done("InputProcessing") \/ Done("FixedUpdate")
    /\ fixed_runs < MaxFixedRuns
    /\ InView(pl)
    /\ sched' = "FixedUpdate"
    /\ todo' = FixedUpdate
    /\ fixed_runs' = fixed_runs + 1
    /\ last' = "FixedUpdate"
    /\ before' = pl
    /\ UNCHANGED <<geom, call>>
    /\ UNCHANGED <<pl, goal, orphan, buffer, panic, commands, jump_held, starved,
                   rotations>>

RotateGravity ==
    /\ Runs("rotate_gravity")
    /\ pl' = rotate_gravity(pl)
    /\ rotations' = Counted(pl, pl', rotations)
    /\ UNCHANGED <<goal, orphan, buffer, panic, commands, jump_held, sched,
                   fixed_runs, starved>>

ApplyGravity ==
    /\ Runs("apply_gravity")
    /\ pl' = apply_gravity(pl)
    /\ UNCHANGED <<goal, orphan, buffer, panic, commands, jump_held, sched,
                   fixed_runs, starved, rotations>>

ApplyAcceleration ==
    /\ Runs("apply_acceleration")
    /\ pl' = apply_acceleration(pl)
    /\ UNCHANGED <<goal, orphan, buffer, panic, commands, jump_held, sched,
                   fixed_runs, starved, rotations>>

ApplyVelocity ==
    /\ Runs("apply_velocity")
    /\ pl' = apply_velocity(pl)
    /\ UNCHANGED <<goal, orphan, buffer, panic, commands, jump_held, sched,
                   fixed_runs, starved, rotations>>

CleanupBuffers ==
    /\ Runs("cleanup_buffers")
    /\ buffer' = cleanup_buffers(buffer)
    /\ UNCHANGED <<pl, goal, orphan, panic, commands, jump_held, sched, fixed_runs,
                   starved, rotations>>

CheckRayToBoxCollisions ==
    /\ Runs("check_ray_to_box_collisions")
    /\ LET out == check_ray_to_box_collisions(buffer)
       IN  buffer' = out.buf /\ panic' = out.panic
    /\ UNCHANGED <<pl, goal, orphan, commands, jump_held, sched, fixed_runs,
                   starved, rotations>>

CheckBoxToBoxCollisions ==
    /\ Runs("check_box_to_box_collisions")
    /\ LET out == check_box_to_box_collisions(buffer)
       IN  buffer' = out.buf /\ panic' = out.panic
    /\ UNCHANGED <<pl, goal, orphan, commands, jump_held, sched, fixed_runs,
                   starved, rotations>>

\* Main: Update follows RunFixedMainLoop
RunUpdate ==
    /\ Done("InputProcessing") \/ Done("FixedUpdate")
    /\ fixed_runs = 0 => starved < MaxStarved
    /\ sched' = "Update"
    /\ todo' = Update
    /\ starved' = IF fixed_runs = 0 THEN starved + 1 ELSE 0
    /\ last' = "Update"
    /\ before' = pl
    /\ UNCHANGED <<geom, call>>
    /\ UNCHANGED <<pl, goal, orphan, buffer, panic, commands, jump_held, fixed_runs,
                   rotations>>

GroundDetection ==
    /\ Runs("ground_detection")
    /\ LET out == ground_detection(pl, buffer[Player])
       IN  /\ pl' = out.q
           /\ panic' = IF out.panicked
                       THEN Some([taker |-> Player, entity |-> Player,
                                  kind |-> "from_vec2"])
                       ELSE panic
    /\ rotations' = Counted(pl, pl', rotations)
    /\ UNCHANGED <<goal, orphan, buffer, commands, jump_held, sched, fixed_runs,
                   starved>>

FallingDetection ==
    /\ Runs("falling_detection")
    /\ pl' = falling_detection(pl, buffer[Player])
    /\ UNCHANGED <<goal, orphan, buffer, panic, commands, jump_held, sched,
                   fixed_runs, starved, rotations>>

GoalCollisionDetection ==
    /\ Runs("goal_collision_detection")
    /\ buffer' = [buffer EXCEPT ![Goal] = << >>]
    /\ commands' = IF GoalTouched(buffer[Goal]) THEN commands \cup {"despawn"}
                   ELSE commands
    /\ UNCHANGED <<pl, goal, orphan, panic, jump_held, sched, fixed_runs, starved,
                   rotations>>

PlayerDies ==
    /\ Runs("player_dies")
    /\ commands' = IF OutOfLevel(pl) THEN commands \cup {"respawn"} ELSE commands
    /\ UNCHANGED <<pl, goal, orphan, buffer, panic, jump_held, sched, fixed_runs,
                   starved, rotations>>

\* the end of the frame: the deferred commands apply, and the next frame's
\* InputProcessing starts.  Entity::despawn (not despawn_recursive) removes
\* the goal and leaves its child Rect behind; the Respawn of the level spawns
\* the player and the goal anew and does not reach a Rect left behind.
RunInputProcessing ==
    /\ Done("Update")
    /\ orphan' = (orphan \/ (goal /\ "despawn" \in commands))
    /\ IF "respawn" \in commands
       THEN /\ pl' = PlayerBundle
            /\ goal' = TRUE
            /\ buffer' = [e \in Entities |-> << >>]
            /\ last' = "spawn"
            /\ rotations' = 0
       ELSE /\ IF "despawn" \in commands
               THEN /\ goal' = FALSE
                    /\ buffer' = [buffer EXCEPT ![Goal] = << >>]
               ELSE UNCHANGED <<goal, buffer>>
            /\ last' = "InputProcessing"
            /\ UNCHANGED <<pl, rotations>>
    /\ before' = pl'
    /\ commands' = {}
    /\ sched' = "InputProcessing"
    /\ todo' = InputProcessing
    /\ fixed_runs' = 0
    /\ UNCHANGED <<panic, jump_held, starved, geom, call>>

Next ==
    \/ ControlJump
    \/ ControlMovement
    \/ RunFixedUpdate
    \/ RotateGravity
    \/ ApplyGravity
    \/ ApplyAcceleration
    \/ ApplyVelocity
    \/ CleanupBuffers
    \/ CheckRayToBoxCollisions
    \/ CheckBoxToBoxCollisions
    \/ RunUpdate
    \/ GroundDetection
    \/ FallingDetection
    \/ GoalCollisionDetection
    \/ PlayerDies
    \/ RunInputProcessing

Spec == Init /\ [][Next]_vars

----------------------------------------------------------------------------
(* The geometry functions on their own: Ray::intersect_aabb,               *)
(* Rect::inter_aabb and Rect::sweep_aabb applied to boxes and movements    *)
(* drawn from bounded sets, and to the vectors of the unit tests           *)

\* the centre of b lies this many model units from the centre of a, at most
MaxOffset == 12

\* the centres of a, the sizes of a and of b, and the movements of a
GeomCentres == {ZERO, <<Px(1), Px(-2)>>}

GeomSizesA == {<<Px(6), Px(6)>>, <<Px(4), Px(2)>>}

GeomSizesB == {<<Px(4), Px(4)>>, <<Px(2), Px(6)>>}

GeomDeltas == {ZERO, <<Px(-10), 0>>, <<0, Px(10)>>, <<Px(3), Px(3)>>}

GeomCalls ==
    [op : {"args"},
     a_pos : GeomCentres,
     a_size : GeomSizesA,
     offset : (-MaxOffset..MaxOffset) \X (-MaxOffset..MaxOffset),
     b_size : GeomSizesB,
     delta : GeomDeltas,
     first : {None},
     result : {None}]

\* tests::sweep_aabb: the position and the movement of a box of size (4,4)
\* swept against a box of size (6,6) at (0,0)
SweepTests ==
    {<<<<Px(10), 0>>, <<Px(-10), 0>>>>,
     <<<<Px(-10), 0>>, <<Px(10), 0>>>>,
     <<<<0, Px(10)>>, <<0, Px(-10)>>>>,
     <<<<0, Px(-10)>>, <<0, Px(10)>>>>,
     <<<<0, Px(3)>>, ZERO>>,
     <<<<Px(10), Px(10)>>, <<Px(-20), 0>>>>}

TestCalls ==
    {[op |-> "args",
      a_pos |-> t[1],
      a_size |-> <<Px(4), Px(4)>>,
      offset |-> VSub(ZERO, t[1]),
      b_size |-> <<Px(6), Px(6)>>,
      delta |-> t[2],
      first |-> None,
      result |-> None] : t \in SweepTests}

\* tests::sweep_aabb::weird_case_causing_nans; its movement (-0.05, 0) is
\* shorter than the lattice, the shortest movement of that direction stands
\* for it
NanTest ==
    [op |-> "args",
     a_pos |-> <<Px(288), Px(372)>>,
     a_size |-> <<Px(24), Px(24)>>,
     offset |-> <<Px(300), Px(48)>>,
     b_size |-> <<Px(72), Px(72)>>,
     delta |-> <<-1, 0>>,
     first |-> None,
     result |-> None]

\* the centre of b in a call
BPos(g) == VAdd(g.a_pos, g.offset)

GeomInit ==
    /\ geom \in GeomCalls \/ geom \in TestCalls \/ geom = NanTest
    /\ call = NoCall
    /\ pl = PlayerBundle
    /\ goal = TRUE
    /\ orphan = FALSE
    /\ buffer = [e \in Entities |-> << >>]
    /\ panic = None
    /\ commands = {}
    /\ jump_held = FALSE
    /\ sched = "InputProcessing"
    /\ todo = InputProcessing
    /\ fixed_runs = 0
    /\ starved = 0
    /\ last = "spawn"
    /\ before = PlayerBundle
    /\ rotations = 0

\* Rect::inter_aabb(a_pos, a_size, b_pos, b_size); the call takes no delta
InterAabb ==
    /\ geom.op = "args"
    /\ geom.delta = ZERO
    /\ geom' = [geom EXCEPT
                  !.op = "inter_aabb",
                  !.result = inter_aabb(geom.a_pos, geom.a_size, BPos(geom),
                                        geom.b_size)]
    /\ UNCHANGED <<world, call>>

\* Rect::sweep_aabb(a_pos, a_size, b_pos, b_size, delta)
SweepAabb ==
    /\ geom.op = "args"
    /\ geom' = [geom EXCEPT
                  !.op = "sweep_aabb",
                  !.result = sweep_aabb(geom.a_pos, geom.a_size, BPos(geom),
                                        geom.b_size, geom.delta)]
    /\ UNCHANGED <<world, call>>

\* "add delta to b_pos to make colliders just touch", and inter_aabb again
PushOut ==
    /\ geom.op = "inter_aabb"
    /\ geom.result.some
    /\ LET offset == VAdd(geom.offset, geom.result.val.delta)
       IN  geom' = [geom EXCEPT
                      !.op = "pushed_out",
                      !.offset = offset,
                      !.first = geom.result,
                      !.result = inter_aabb(geom.a_pos, geom.a_size,
                                            VAdd(geom.a_pos, offset),
                                            geom.b_size)]
    /\ UNCHANGED <<world, call>>

\* Ray::intersect_aabb(a_pos, Ray(delta), b_pos, Rect(b_size)): the ray starts
\* at the centre of a and b is the box as it is
IntersectAabb ==
    /\ geom.op = "args"
    /\ geom.delta # ZERO
    /\ geom' = [geom EXCEPT
                  !.op = "intersect_aabb",
                  !.result = intersect_aabb(geom.a_pos, geom.delta, BPos(geom),
                                            geom.b_size)]
    /\ UNCHANGED <<world, call>>

\* a is put at the position of the sweep, and inter_aabb is called there
PlaceAt ==
    /\ geom.op = "sweep_aabb"
    /\ geom.result.some
    /\ LET position == geom.result.val.position
           offset == VSub(BPos(geom), position)
       IN  geom' = [geom EXCEPT
                      !.op = "placed",
                      !.a_pos = position,
                      !.offset = offset,
                      !.first = geom.result,
                      !.result = inter_aabb(position, geom.a_size,
                                            VAdd(position, offset), geom.b_size)]
    /\ UNCHANGED <<world, call>>

GeomNext ==
    \/ InterAabb
    \/ SweepAabb
    \/ PushOut
    \/ IntersectAabb
    \/ PlaceAt

GeomSpec == GeomInit /\ [][GeomNext]_vars

----------------------------------------------------------------------------
(* The systems on their own: rotate_gravity, ground_detection and          *)
(* control_jump applied to one entity whose components, buffer and input   *)
(* are drawn from bounded sets, and the reducers c_min and c_max applied   *)
(* to two intersections                                                    *)

\* a buffer holds this many events, at most
MaxBuffer == 3

\* the entity with its gravity along g: the transform, the box and the rays
\* as rotate_gravity turns them with the gravity
Oriented(g) ==
    LET rotation == CASE g = "Down" -> 0 [] g = "Right" -> 1
                      [] g = "Up" -> 2 [] g = "Left" -> 3
    IN  [PlayerBundle EXCEPT
           !.g_dir = g,
           !.rotation = rotation,
           !.rect = IF rotation % 2 = 1 THEN <<PLAYER_DIM[2], PLAYER_DIM[1]>>
                    ELSE PLAYER_DIM,
           !.rays = [i \in 1..Len(@) |-> VScale(RAY_LENGTH, as_vec2(g))]]

\* velocities and accelerations: each component is 0 or of magnitude Step
Speeds == {-Step, 0, Step} \X {-Step, 0, Step}

Accelerations == {ZERO, <<0, -Step>>, <<Step, 0>>}

\* an entity rotate_gravity is run on
RotateInput(g, v, a, t, h, d) ==
    [Oriented(g) EXCEPT
       !.velocity = v,
       !.acceleration = a,
       !.turned_this_jump = t,
       !.last_horizontal_movement_dir = h,
       !.last_vertical_movement_dir = d]

\* an entity ground_detection is run on
GroundInput(g, v, a, t) ==
    [Oriented(g) EXCEPT
       !.velocity = v,
       !.acceleration = a,
       !.turned_this_jump = t]

\* a sweep of the given time that stopped against the face of the given
\* normal; sweeps that differ in time or normal differ in position
SweepAt(time, normal) ==
    Sweep(VAdd(At(48, 36), VScale(Px(4) + time.v, as_vec2(normal))), time,
          as_vec2(normal))

\* the events a buffer is made of: ground sweeps of two times against two
\* faces, a sweep against the goal and a ray hit on the ground
BufferEvents ==
    {CollisionEvent(GroundName(1), "Ground", "Aabb", SweepAt(time, normal)) :
       time \in {Fin(0, 1), Fin(Px(1), 1)}, normal \in {"Up", "Right"}}
    \cup {CollisionEvent(Goal, "Goal", "Aabb", SweepAt(Fin(0, 1), "Left")),
          CollisionEvent(GroundName(1), "Ground", "Ray",
                         RayIntersection(Fin(0, 1), as_vec2("Down"),
                                         At(48, 36), <<0, -RAY_LENGTH>>))}

Buffers == UNION {[1..n -> BufferEvents] : n \in 0..MaxBuffer}

\* an entity control_jump is run on
JumpInput(g, v, on_ground, t) ==
    [Oriented(g) EXCEPT
       !.velocity = v,
       !.on_ground = on_ground,
       !.turned_this_jump = t]

\* ActionState<JumpAction>: just_pressed and pressed; a button that is just
\* pressed is pressed
JumpActions ==
    {[just_pressed |-> FALSE, pressed |-> FALSE],
     [just_pressed |-> FALSE, pressed |-> TRUE],
     [just_pressed |-> TRUE, pressed |-> TRUE]}

\* the times of impact the reducers are given
Tois == {NaN, NInf, PInf, Fin(-2, 1), Fin(0, 1), Fin(3, 1), Fin(2, 2)}

\* an intersection of the given time; intersections that differ in time
\* or in place differ in normal
ToiAt(toi, place) ==
    RayIntersection(toi, as_vec2(IF place = 1 THEN "Left" ELSE "Right"),
                    ZERO, <<RAY_LENGTH, 0>>)

\* no input is read by the call
NoInput == [just_pressed |-> FALSE, pressed |-> FALSE]

\* a call of a system that has not been made yet
SystemCall(system, q, buf, input) ==
    [op |-> "args", system |-> system, q |-> q, buf |-> buf, input |-> input,
     result |-> None]

SystemInit ==
    /\ \/ \E g \in Direction, v \in Speeds, a \in {ZERO, <<0, -Step>>},
              t \in BOOLEAN, h \in Direction, d \in Direction :
              call = SystemCall("rotate_gravity", RotateInput(g, v, a, t, h, d),
                                << >>, NoInput)
       \/ \E g \in {"Down", "Left"}, v \in Speeds, a \in Accelerations,
              t \in BOOLEAN, buf \in Buffers :
              call = SystemCall("ground_detection", GroundInput(g, v, a, t), buf,
                                NoInput)
       \/ \E g \in Direction, v \in Speeds, on_ground \in BOOLEAN,
              t \in BOOLEAN, input \in JumpActions :
              call = SystemCall("control_jump", JumpInput(g, v, on_ground, t),
                                << >>, input)
       \/ \E a \in Tois, b \in Tois, reducer \in {"c_min", "c_max"} :
              call = SystemCall(reducer, <<ToiAt(a, 1), ToiAt(b, 2)>>, << >>,
                                NoInput)
    /\ geom = NoCall
    /\ pl = PlayerBundle
    /\ goal = TRUE
    /\ orphan = FALSE
    /\ buffer = [e \in Entities |-> << >>]
    /\ panic = None
    /\ commands = {}
    /\ jump_held = FALSE
    /\ sched = "InputProcessing"
    /\ todo = InputProcessing
    /\ fixed_runs = 0
    /\ starved = 0
    /\ last = "spawn"
    /\ before = PlayerBundle
    /\ rotations = 0

\* rotate_gravity on the entity of the call
RotateGravityCall ==
    /\ call.op = "args"
    /\ call.system = "rotate_gravity"
    /\ call' = [call EXCEPT !.op = "done", !.result = Some(rotate_gravity(call.q))]
    /\ UNCHANGED <<world, geom>>

\* ground_detection on the entity and the buffer of the call
GroundDetectionCall ==
    /\ call.op = "args"
    /\ call.system = "ground_detection"
    /\ call' = [call EXCEPT
                  !.op = "done",
                  !.result = Some(ground_detection(call.q, call.buf))]
    /\ UNCHANGED <<world, geom>>

\* control_jump on the entity and the input of the call
ControlJumpCall ==
    /\ call.op = "args"
    /\ call.system = "control_jump"
    /\ call' = [call EXCEPT
                  !.op = "done",
                  !.result = Some(control_jump(call.q, call.input.just_pressed,
                                               call.input.pressed))]
    /\ UNCHANGED <<world, geom>>

\* c_min(a, b) on the two intersections of the call
CMinCall ==
    /\ call.op = "args"
    /\ call.system = "c_min"
    /\ call' = [call EXCEPT !.op = "done",
                            !.result = Some(c_min(call.q[1], call.q[2]))]
    /\ UNCHANGED <<world, geom>>

\* c_max(a, b) on the two intersections of the call
CMaxCall ==
    /\ call.op = "args"
    /\ call.system = "c_max"
    /\ call' = [call EXCEPT !.op = "done",
                            !.result = Some(c_max(call.q[1], call.q[2]))]
    /\ UNCHANGED <<world, geom>>

SystemNext ==
    \/ RotateGravityCall
    \/ GroundDetectionCall
    \/ ControlJumpCall
    \/ CMinCall
    \/ CMaxCall

SystemSpec == SystemInit /\ [][SystemNext]_vars

----------------------------------------------------------------------------
(* Properties *)

\* the observers last and before span the run of one system
SystemStep == last \in (InputProcessing \cup FixedUpdate \cup Update)

\* both detection drivers of a tick have run
DetectionDone == sched = "FixedUpdate" /\ todo = {} /\ ~panic.some

EmptyBuffers == [e \in Entities |-> << >>]

\* the entities that own a CollisionEvents buffer
HasBuffer(e) == e = Player \/ (e = Goal /\ goal)

\* the classification an entity was spawned with
TagOf(e) == IF e = Player THEN "Player" ELSE IF e = Goal THEN "Goal" ELSE "Ground"

\* the orientation state of an entity
Orientation(q) ==
    IF q.on_ground THEN "Grounded"
    ELSE IF q.turned_this_jump THEN "Airborne(turned)"
    ELSE "Airborne(not turned)"

\* the speed along gravity: positive when falling, negative when rising
VSpeed(q) == Dot(as_vec2(q.g_dir), q.velocity)

\* is some buffered event of the player a ground sweep with this normal
GroundSweepWith(normal) ==
    \E i \in 1..Len(buffer[Player]) :
        /\ buffer[Player][i].kind = "Aabb"
        /\ buffer[Player][i].user_type = "Ground"
        /\ buffer[Player][i].data.normal = normal

\* is some buffered event of the player a ground ray hit along this direction
GroundRayAlong(dir) ==
    \E i \in 1..Len(buffer[Player]) :
        /\ buffer[Player][i].kind = "Ray"
        /\ buffer[Player][i].user_type = "Ground"
        /\ SgnVec(buffer[Player][i].data.ray_direction) = as_vec2(dir)

\* C1: every tick runs clear, produce, consume in that order before the next
\* clear: a resolver pass (the systems of Update) starts only when exactly one
\* tick has run since the pass before it, and cleanup_buffers runs only in the
\* first tick since that pass, so that no batch is resolved twice and none is
\* cleared unresolved.  fixed_runs counts the ticks since the last pass.
C1_ClearProduceConsume ==
    [][/\ (sched # "Update" /\ sched' = "Update") => fixed_runs = 1
       /\ ("cleanup_buffers" \in todo /\ "cleanup_buffers" \notin todo')
            => fixed_runs = 1]_vars

\* C2: in every tick cleanup_buffers runs before either detection driver, and
\* after the tick's detection the buffers hold exactly the events the two
\* drivers produce in this tick, in one of their two orders, and nothing from
\* an earlier tick.
C2_BuffersHoldThisTickOnly ==
    /\ (sched = "FixedUpdate" /\ "cleanup_buffers" \in todo)
         => {"check_ray_to_box_collisions", "check_box_to_box_collisions"}
              \subseteq todo
    /\ DetectionDone
         => buffer \in
              {check_box_to_box_collisions(
                   check_ray_to_box_collisions(EmptyBuffers).buf).buf,
               check_ray_to_box_collisions(
                   check_box_to_box_collisions(EmptyBuffers).buf).buf}

\* a second tick of a frame has detected a collision of the player
C2_Witness ==
    DetectionDone /\ fixed_runs = 2 /\ buffer[Player] # << >>

\* C3: between leaving the ground and being grounded again an entity's
\* gravity is rotated at most once.
C3_OneRotationPerAirbornePhase == rotations <= 1

\* rotate_gravity ran in an airborne phase that has its rotation already, at a
\* flip into falling, and did not rotate
C3_Witness ==
    /\ last = "rotate_gravity"
    /\ rotations = 1
    /\ ~pl.on_ground
    /\ before.turned_this_jump
    /\ VSpeed(before) > 0
    /\ before.last_vertical_movement_dir # before.g_dir
    /\ pl.g_dir = before.g_dir

\* C4 as stated: whenever on_ground changes from true to false,
\* turned_this_jump is false afterwards.
C4_TurnedResetOnLeavingGround ==
    (SystemStep /\ before.on_ground /\ ~pl.on_ground) => ~pl.turned_this_jump

\* C4 amended: on_ground changes from true to false by control_jump, which
\* resets turned_this_jump, or by falling_detection, which leaves
\* turned_this_jump as it was.
C4_TurnedResetByJumpOnly ==
    (SystemStep /\ before.on_ground /\ ~pl.on_ground)
        => \/ last = "control_jump" /\ ~pl.turned_this_jump
           \/ /\ last = "falling_detection"
              /\ pl.turned_this_jump = before.turned_this_jump

\* falling_detection took an entity that had turned off the ground
C4_Witness ==
    /\ last = "falling_detection"
    /\ before.on_ground /\ before.turned_this_jump
    /\ ~pl.on_ground /\ pl.turned_this_jump

\* C5 as stated: the orientation state changes only along
\* Grounded -> Airborne(not turned) -> Airborne(turned) -> Grounded.
C5_OrientationCycleOnly ==
    (SystemStep /\ Orientation(before) # Orientation(pl))
        => <<Orientation(before), Orientation(pl)>> \in
             {<<"Grounded", "Airborne(not turned)">>,
              <<"Airborne(not turned)", "Airborne(turned)">>,
              <<"Airborne(turned)", "Grounded">>}

\* C5 amended: besides the three transitions of the cycle, an entity lands
\* without having turned (by ground_detection) and leaves the ground with
\* turned_this_jump still set (by falling_detection); the one transition that
\* never occurs is Airborne(turned) -> Airborne(not turned).
C5_OrientationTransitions ==
    (SystemStep /\ Orientation(before) # Orientation(pl))
        => \/ <<Orientation(before), Orientation(pl)>> \in
                {<<"Grounded", "Airborne(not turned)">>,
                 <<"Airborne(not turned)", "Airborne(turned)">>,
                 <<"Airborne(turned)", "Grounded">>}
           \/ /\ last = "ground_detection"
              /\ Orientation(before) = "Airborne(not turned)"
              /\ Orientation(pl) = "Grounded"
           \/ /\ last = "falling_detection"
              /\ Orientation(before) = "Grounded"
              /\ Orientation(pl) = "Airborne(turned)"

\* an entity that had not turned has landed
C5_Witness ==
    /\ last = "ground_detection"
    /\ Orientation(before) = "Airborne(not turned)"
    /\ Orientation(pl) = "Grounded"

\* C6 as stated: an entity moving left under gravity Down that has not turned
\* and whose vertical velocity flips from falling to rising rotates its
\* gravity.
C6_RotatesOnFlipToRising ==
    (/\ last = "rotate_gravity"
     /\ before.g_dir = "Down"
     /\ before.velocity[1] < 0
     /\ ~before.turned_this_jump
     /\ before.last_vertical_movement_dir = "Down"
     /\ VSpeed(before) < 0)
        => pl.g_dir # before.g_dir

\* C6 amended: an entity moving left under gravity Down that has not turned
\* and whose vertical velocity flips from rising to falling rotates its
\* gravity clockwise, to Left, once; rotate_gravity does not rotate an entity
\* whose turned_this_jump is set, and turned_this_jump is reset only by
\* control_jump for an entity on the ground.
C6_RotatesOnFlipToFalling ==
    /\ (/\ last = "rotate_gravity"
        /\ before.g_dir = "Down"
        /\ before.velocity[1] < 0
        /\ ~before.turned_this_jump
        /\ before.last_vertical_movement_dir # "Down"
        /\ VSpeed(before) > 0)
           => pl.g_dir = "Left" /\ pl.turned_this_jump
    /\ (last = "rotate_gravity" /\ before.turned_this_jump)
           => pl.g_dir = before.g_dir
    /\ (SystemStep /\ before.turned_this_jump /\ ~pl.turned_this_jump)
           => last = "control_jump" /\ before.on_ground

\* rotate_gravity has turned the gravity of an entity moving left from Down
\* to Left at the top of its jump
C6_Witness ==
    /\ last = "rotate_gravity"
    /\ before.g_dir = "Down"
    /\ before.velocity[1] < 0
    /\ ~before.turned_this_jump
    /\ before.last_vertical_movement_dir = "Up"
    /\ VSpeed(before) > 0
    /\ pl.g_dir = "Left"

\* C7 as stated: ground_detection sets on_ground exactly when the ground
\* sweep of least time has the reverse of gravity as its normal.
C7_GroundedByWinningSweep ==
    last = "ground_detection"
        => IF WinnerIsFloor(pl, buffer[Player]) THEN pl.on_ground
           ELSE pl.on_ground = before.on_ground

\* C7 amended: ground_detection sets on_ground exactly when some buffered
\* ground sweep, the winning one or another, has the reverse of gravity as
\* its normal.
C7_GroundedByAnyFloorSweep ==
    (last = "ground_detection" /\ ~panic.some)
        => pl.on_ground =
             (before.on_ground \/ GroundSweepWith(as_vec2(reverse(pl.g_dir))))

\* ground_detection has grounded an entity whose winning sweep is not a floor
C7_Witness ==
    /\ last = "ground_detection"
    /\ ~before.on_ground /\ pl.on_ground
    /\ FirstMinSweep(buffer[Player], 1, None).some
    /\ ~WinnerIsFloor(pl, buffer[Player])

\* C8: falling_detection clears on_ground of a grounded entity if and only if
\* its buffer holds no ground ray hit along its gravity, and changes nothing
\* else; an entity that is not grounded is left unchanged.
C8_FallingDetection ==
    last = "falling_detection"
        => IF before.on_ground
           THEN pl = [before EXCEPT !.on_ground = GroundRayAlong(before.g_dir)]
           ELSE pl = before

\* falling_detection has cleared on_ground
C8_Witness ==
    /\ last = "falling_detection"
    /\ before.on_ground /\ ~pl.on_ground
    /\ ~GroundRayAlong(pl.g_dir)

\* C9 as stated: a pair one of whose owners has no buffer adds no event to
\* any buffer: every buffered event names an owner that has a buffer.
C9_NoEventForBufferlessOwner ==
    \A e \in Entities : \A i \in 1..Len(buffer[e]) :
        HasBuffer(buffer[e][i].entity)

\* C9 amended: a driver skips a test only when the owner that would take the
\* event has no buffer: such an owner takes no event and raises no error,
\* and an owner that has a buffer takes the event of every hit of the tick,
\* whether or not the other owner has a buffer.
C9_SkipsWhenTakerHasNoBuffer ==
    /\ \A e \in Entities : buffer[e] # << >> => HasBuffer(e)
    /\ (panic.some /\ panic.val.kind \in {"Ray", "Aabb"})
         => HasBuffer(panic.val.taker)
    /\ DetectionDone
         => \A i, j \in 1..Len(Rects) :
              LET hit == SweepInto(Rects[i], Rects[j]).collision
              IN  (i # j /\ HasBuffer(Rects[i].parent) /\ hit.some)
                    => \E k \in 1..Len(buffer[Rects[i].parent]) :
                         /\ buffer[Rects[i].parent][k].entity = Rects[j].parent
                         /\ buffer[Rects[i].parent][k].data = hit.val

\* the player holds a sweep against a ground entity, which has no buffer
C9_Witness ==
    /\ DetectionDone
    /\ \E i \in 1..Len(buffer[Player]) :
         /\ buffer[Player][i].kind = "Aabb"
         /\ buffer[Player][i].user_type = "Ground"
         /\ ~HasBuffer(buffer[Player][i].entity)

\* C10: a hit against a box whose owner has no classification halts the
\* program: a driver that has run without a panic found no such hit, a panic
\* of a driver names an owner without a classification, and every buffered
\* event carries the classification of the owner it names.
C10_PanicOnMissingTag ==
    /\ \A e \in Entities : \A i \in 1..Len(buffer[e]) :
         /\ buffer[e][i].entity # DeadGoal
         /\ buffer[e][i].user_type = TagOf(buffer[e][i].entity)
    /\ (panic.some /\ panic.val.kind \in {"Ray", "Aabb"})
         => panic.val.entity = DeadGoal
    /\ (last = "check_box_to_box_collisions" /\ ~panic.some)
         => \A i, j \in 1..Len(Rects) :
              (i # j /\ Rects[j].parent = DeadGoal /\ HasBuffer(Rects[i].parent))
                 => ~SweepInto(Rects[i], Rects[j]).collision.some
    /\ (last = "check_ray_to_box_collisions" /\ ~panic.some)
         => \A i \in 1..Len(Rays) : \A j \in 1..Len(Rects) :
              Rects[j].parent = DeadGoal
                 => ~RayToBox(Rays[i], Rects[j]).collision.some

\* the player's sweep has hit the Rect a despawned goal left behind
C10_Witness ==
    /\ panic.some
    /\ panic.val.kind = "Aabb"
    /\ panic.val.taker = Player
    /\ panic.val.entity = DeadGoal

\* the events of one kind in a buffer, in order
EventsOfKind(buf, kind) ==
    LET OfKind(ev) == ev.kind = kind IN SelectSeq(buf, OfKind)

\* the ray hits an owner is due in a tick: its rays in order, each against
\* the boxes in order, with the id and the classification of the box's owner
RayHitsDue(e) ==
    LET pairs == [k \in 1..(Len(Rays) * Len(Rects)) |->
                    <<((k - 1) \div Len(Rects)) + 1, ((k - 1) % Len(Rects)) + 1>>]
        Found(p) == intersect_aabb(Rays[p[1]].t, Rays[p[1]].ray,
                                   Rects[p[2]].t, Rects[p[2]].rect)
        Hit(p) == Rays[p[1]].parent = e /\ HasBuffer(e) /\ Found(p).some
        hits == SelectSeq(pairs, Hit)
    IN  [i \in 1..Len(hits) |->
           [entity |-> Rects[hits[i][2]].parent,
            user_type |-> TagOf(Rects[hits[i][2]].parent),
            kind |-> "Ray",
            data |-> Found(hits[i]).val]]

\* the sweep hits an owner is due in a tick: its box swept along its own
\* PositionDelta (from where it is, by nothing, if it has none) against every
\* other box in order
SweepHitsDue(e) ==
    LET mine == {k \in 1..Len(Rects) : Rects[k].parent = e}
        others == [k \in 1..Len(Rects) |-> k]
        Found(k, j) ==
            IF e = Player
            THEN sweep_aabb(pl.delta.origin, Rects[k].rect,
                            Rects[j].t, Rects[j].rect, pl.delta.ray)
            ELSE sweep_aabb(Rects[k].t, Rects[k].rect,
                            Rects[j].t, Rects[j].rect, ZERO)
    IN  IF mine = {} \/ ~HasBuffer(e) THEN << >>
        ELSE LET k == CHOOSE x \in mine : TRUE
                 Hit(j) == j # k /\ Found(k, j).some
                 hits == SelectSeq(others, Hit)
             IN  [i \in 1..Len(hits) |->
                    [entity |-> Rects[hits[i]].parent,
                     user_type |-> TagOf(Rects[hits[i]].parent),
                     kind |-> "Aabb",
                     data |-> Found(k, hits[i]).val]]

\* the ray driver, or the box driver, of the running tick has run
RayDriverRan ==
    sched = "FixedUpdate" /\ "check_ray_to_box_collisions" \notin todo /\ ~panic.some

BoxDriverRan ==
    sched = "FixedUpdate" /\ "check_box_to_box_collisions" \notin todo /\ ~panic.some

C12_RayHitsGoToRayOwner ==
    RayDriverRan
        => \A e \in Entities : EventsOfKind(buffer[e], "Ray") = RayHitsDue(e)

\* the ray driver has run: one ray of the player has hit a ground box and
\* the other has hit nothing
C12_Witness ==
    /\ last = "check_ray_to_box_collisions"
    /\ RayDriverRan
    /\ Len(EventsOfKind(buffer[Player], "Ray")) = 1
    /\ buffer[Player][Len(buffer[Player])].user_type = "Ground"

\* C13: after the box driver of a tick the sweep hits in every owner's buffer
\* are, in order, the hits of that owner's box swept against every other
\* box, along the owner's PositionDelta or, for an owner without one, by a
\* zero delta from where the box is, each with the id and the classification
\* of the other owner.
C13_SweepsInBothDirections ==
    BoxDriverRan
        => \A e \in Entities : EventsOfKind(buffer[e], "Aabb") = SweepHitsDue(e)

\* the box driver has run: the moving player has swept into the goal and the
\* goal, which has no PositionDelta, into the player
C13_Witness ==
    /\ last = "check_box_to_box_collisions"
    /\ BoxDriverRan
    /\ pl.delta.ray # ZERO
    /\ \E i \in 1..Len(buffer[Player]) :
         buffer[Player][i].kind = "Aabb" /\ buffer[Player][i].entity = Goal
    /\ \E i \in 1..Len(buffer[Goal]) :
         buffer[Goal][i].kind = "Aabb" /\ buffer[Goal][i].entity = Player

\* the penetration of the two boxes of a call on each axis:
\* (a_size + b_size) / 2 - |b_pos - a_pos|
Penetration(g) ==
    <<((g.a_size[1] + g.b_size[1]) \div 2) - Abs(g.offset[1]),
      ((g.a_size[2] + g.b_size[2]) \div 2) - Abs(g.offset[2])>>

\* the number of non-zero components of a vector
NonZeroAxes(v) == Cardinality({i \in 1..2 : v[i] # 0})

\* the call is inter_aabb for a at (0,0) of size (6,6) and b of size (4,4)
TestBoxes(g) ==
    /\ g.op = "inter_aabb"
    /\ g.a_pos = ZERO /\ g.a_size = <<Px(6), Px(6)>> /\ g.b_size = <<Px(4), Px(4)>>

\* C14: inter_aabb returns no result exactly when the penetration is negative
\* on at least one axis.
C14_NoneIffApartOnAnAxis ==
    geom.op = "inter_aabb"
        => (~geom.result.some
              <=> (Penetration(geom)[1] < 0 \/ Penetration(geom)[2] < 0))

\* boxes that overlap on x and are apart on y give no result
C14_Witness ==
    /\ geom.op = "inter_aabb"
    /\ Penetration(geom)[1] > 0 /\ Penetration(geom)[2] < 0
    /\ ~geom.result.some

\* C15 as stated: for overlapping boxes, inter_aabb returns none once b has
\* been translated by the delta reported.
C15_PushedOutGivesNone ==
    geom.op = "pushed_out" => ~geom.result.some

\* C15 amended: once b has been translated by the delta reported the boxes
\* just touch: inter_aabb returns a result again, with a delta of (0,0).
C15_PushedOutJustTouches ==
    geom.op = "pushed_out"
        => /\ geom.result.some
           /\ geom.result.val.delta = ZERO
           /\ (Penetration(geom)[1] = 0 \/ Penetration(geom)[2] = 0)

\* boxes that overlapped by more than nothing have been pushed out
C15_Witness ==
    /\ geom.op = "pushed_out"
    /\ geom.first.val.delta # ZERO
    /\ geom.result.some /\ geom.result.val.delta = ZERO

\* C16: the axis of the result is the axis of the smaller penetration, and
\* the y axis when the two penetrations are equal.
C16_SmallerPenetrationAxis ==
    (geom.op = "inter_aabb" /\ geom.result.some)
        => LET p == Penetration(geom)
               n == geom.result.val.normal
           IN  /\ n[1] # 0 => p[1] < p[2]
               /\ n[2] # 0 => p[2] <= p[1]
               /\ p[1] = p[2] => n[2] # 0

\* boxes of equal penetrations are resolved along y
C16_Witness ==
    /\ geom.op = "inter_aabb"
    /\ geom.result.some
    /\ Penetration(geom)[1] = Penetration(geom)[2]
    /\ Penetration(geom)[1] > 0
    /\ geom.result.val.normal[2] # 0

\* C17 as stated: every result has exactly one non-zero axis in delta and
\* exactly one in normal.
C17_OneAxisInDeltaAndNormal ==
    (geom.op = "inter_aabb" /\ geom.result.some)
        => /\ NonZeroAxes(geom.result.val.delta) = 1
           /\ NonZeroAxes(geom.result.val.normal) = 1

\* C17 amended: every result has exactly one non-zero axis in normal and at
\* most one in delta, which lies on the axis of the normal; delta is (0,0)
\* exactly when the boxes just touch on that axis.
C17_OneAxisInNormal ==
    (geom.op = "inter_aabb" /\ geom.result.some)
        => LET r == geom.result.val
               p == Penetration(geom)
           IN  /\ NonZeroAxes(r.normal) = 1
               /\ NonZeroAxes(r.delta) <= 1
               /\ \A i \in 1..2 : r.delta[i] # 0 => r.normal[i] # 0
               /\ r.delta = ZERO <=> \E i \in 1..2 : r.normal[i] # 0 /\ p[i] = 0

\* boxes that just touch give a result whose delta is (0,0)
C17_Witness ==
    /\ geom.op = "inter_aabb"
    /\ geom.result.some
    /\ geom.result.val.delta = ZERO
    /\ NonZeroAxes(geom.result.val.normal) = 1

\* C18 as stated: for a at (0,0) of size (6,6) and b at (6,0) of size (4,4)
\* inter_aabb returns delta (0,0), normal (1,0), point (3,0).
C18_TouchingAtSix ==
    (TestBoxes(geom) /\ geom.offset = <<Px(6), 0>>)
        => geom.result = Some([delta |-> ZERO, normal |-> <<1, 0>>,
                               point |-> <<Px(3), 0>>])

\* C18 amended: the boxes touch with b at (5,0), where inter_aabb returns
\* delta (0,0), normal (1,0), point (3,0); with b at (6,0) they are apart
\* and inter_aabb returns none.
C18_TouchingAtFive ==
    /\ (TestBoxes(geom) /\ geom.offset = <<Px(5), 0>>)
         => geom.result = Some([delta |-> ZERO, normal |-> <<1, 0>>,
                                point |-> <<Px(3), 0>>])
    /\ (TestBoxes(geom) /\ geom.offset = <<Px(6), 0>>) => geom.result = None

\* inter_aabb has been called for b at (5,0)
C18_Witness ==
    /\ TestBoxes(geom)
    /\ geom.offset = <<Px(5), 0>>
    /\ geom.result.some

\* C19: on the axis of the result the sign is that of b_pos - a_pos
\* (negative below 0, positive otherwise): delta is the signed penetration,
\* normal the signed unit vector, point lies on a's face on that side with
\* its other coordinate taken from b_pos; a (0,0) (6,6) and b (4,0) (4,4)
\* give delta (1,0), normal (1,0), point (3,0).
C19_SignFollowsOffset ==
    /\ (geom.op = "inter_aabb" /\ geom.result.some)
         => LET r == geom.result.val
                p == Penetration(geom)
                i == IF p[1] < p[2] THEN 1 ELSE 2
                j == 3 - i
                sign == IF geom.offset[i] < 0 THEN -1 ELSE 1
            IN  /\ r.delta[i] = sign * p[i] /\ r.delta[j] = 0
                /\ r.normal[i] = sign /\ r.normal[j] = 0
                /\ r.point[i] = geom.a_pos[i] + sign * (geom.a_size[i] \div 2)
                /\ r.point[j] = BPos(geom)[j]
    /\ (TestBoxes(geom) /\ geom.offset = <<Px(4), 0>>)
         => geom.result = Some([delta |-> <<Px(1), 0>>, normal |-> <<1, 0>>,
                                point |-> <<Px(3), 0>>])

\* a box at the same y as a, overlapping it least on y, is pushed upwards
C19_Witness ==
    /\ geom.op = "inter_aabb"
    /\ geom.result.some
    /\ geom.offset[2] = 0
    /\ geom.offset[1] # 0
    /\ geom.a_pos # ZERO
    /\ geom.result.val.normal = <<0, 1>>
    /\ geom.result.val.delta[2] > 0

\* C20: sweep_aabb with a delta of (0,0) returns a result of time 0 when
\* the boxes overlap (no penetration is negative), and none when they are
\* apart on an axis, however near they are.
C20_ZeroDeltaSweep ==
    (geom.op = "sweep_aabb" /\ geom.delta = ZERO)
        => IF Penetration(geom)[1] >= 0 /\ Penetration(geom)[2] >= 0
           THEN geom.result.some /\ geom.result.val.time = Fin(0, 1)
           ELSE geom.result = None

\* a box one model unit away from the other has not moved and hits nothing
C20_Witness ==
    /\ geom.op = "sweep_aabb"
    /\ geom.delta = ZERO
    /\ Penetration(geom)[1] = -1
    /\ Penetration(geom)[2] > 0
    /\ geom.result = None

\* the boxes of a call touch without overlapping: no penetration is negative
\* and one is zero
Touches(g) ==
    /\ Penetration(g)[1] >= 0 /\ Penetration(g)[2] >= 0
    /\ (Penetration(g)[1] = 0 \/ Penetration(g)[2] = 0)

\* the call has the boxes of tests::sweep_aabb, a at a_pos moving by delta
SweepTest(g, a_pos, delta) ==
    /\ g.a_pos = a_pos /\ g.a_size = <<Px(4), Px(4)>>
    /\ g.offset = VSub(ZERO, a_pos) /\ g.b_size = <<Px(6), Px(6)>>
    /\ g.delta = delta

\* the sum of the sizes of the two boxes, halved, on each axis
Reach(g) == VHalf(VAdd(g.a_size, g.b_size))

\* some box of a's path along delta overlaps b: at one of the lattice points
\* of the path no penetration is negative
PathMeets(g) ==
    \E k \in 0..AxisLen(g.delta) :
        LET offset == VSub(g.offset, VScale(k, SgnVec(g.delta)))
        IN  /\ Reach(g)[1] - Abs(offset[1]) >= 0
            /\ Reach(g)[2] - Abs(offset[2]) >= 0

\* C21: after a sweep of delta (0,0) of overlapping boxes, a placed at the
\* reported position touches b without overlapping it; a of size (4,4) at
\* (0,3) against b of size (6,6) at (0,0) is reported at (0,5) with time 0.
C21_ZeroDeltaPushesOut ==
    /\ (geom.op = "placed" /\ geom.delta = ZERO) => Touches(geom)
    /\ (geom.op = "sweep_aabb" /\ SweepTest(geom, <<0, Px(3)>>, ZERO))
          => /\ geom.result.some
             /\ geom.result.val.position = <<0, Px(5)>>
             /\ geom.result.val.time = Fin(0, 1)

\* C22: a sweep of a non-zero delta returns what the ray test of delta from
\* a_pos against b inflated by the size of a returns: none if the ray test
\* returns none, else position = a_pos + toi * normalize(delta), time = toi
\* and the normal of the ray test, which is the normal of the face of the
\* inflated box the position lies on; a of size (4,4) at (10,0) moving by
\* (-10,0) against b of size (6,6) at (0,0) gives position (5,0), time 5 and
\* normal (1,0).
C22_SweepIsRayAgainstInflated ==
    /\ (geom.op = "sweep_aabb" /\ geom.delta # ZERO)
          => LET hit == intersect_aabb(geom.a_pos, geom.delta, BPos(geom),
                                       VAdd(geom.b_size, geom.a_size))
                 r == geom.result.val
             IN  /\ geom.result.some <=> hit.some
                 /\ geom.result.some
                      => /\ r.time = hit.val.toi
                         /\ r.normal = hit.val.normal
                         /\ r.position
                              = VAdd(geom.a_pos,
                                     VScale(r.time.v, SgnVec(geom.delta)))
                         /\ Dot(VSub(r.position, BPos(geom)), r.normal)
                              = Dot(Reach(geom), VAbs(r.normal))
    /\ (geom.op = "sweep_aabb" /\ SweepTest(geom, <<Px(10), 0>>, <<Px(-10), 0>>))
          => geom.result
               = Some(Sweep(<<Px(5), 0>>, Fin(Px(5), 1), as_vec2("Right")))

\* the sweep of the unit test "left" has been made
C22_Witness ==
    /\ geom.op = "sweep_aabb"
    /\ SweepTest(geom, <<Px(10), 0>>, <<Px(-10), 0>>)
    /\ geom.result.some
    /\ geom.result.val.time = Fin(Px(5), 1)

\* C23 as stated: the time of a sweep of a non-zero delta that hits lies in
\* (0, 1].
C23_TimeIsFraction ==
    (geom.op = "sweep_aabb" /\ geom.delta # ZERO /\ geom.result.some)
        => /\ FGt(geom.result.val.time, Fin(0, 1))
           /\ ~FGt(geom.result.val.time, Fin(Px(1), 1))

\* C23: when a box that starts apart from the target is swept by a non-zero
\* delta and hits it, the time is the distance travelled before contact:
\* it is greater than 0 and less than the length of delta, and the position
\* lies that far from a_pos along delta.
C23_TimeIsDistance ==
    (/\ geom.op = "sweep_aabb" /\ geom.delta # ZERO /\ geom.result.some
     /\ (Penetration(geom)[1] < 0 \/ Penetration(geom)[2] < 0))
        => LET time == geom.result.val.time
           IN  /\ time.inf = 0 /\ time.k2 = K2(geom.delta)
               /\ time.v > 0 /\ time.v < AxisLen(geom.delta)
               /\ VSub(geom.result.val.position, geom.a_pos)
                    = VScale(time.v, SgnVec(geom.delta))

\* a motion of 10 pixels is stopped after 2 of them
C23_Witness ==
    /\ geom.op = "sweep_aabb"
    /\ geom.delta = <<0, Px(10)>>
    /\ Penetration(geom)[2] < 0
    /\ geom.result.some
    /\ geom.result.val.time = Fin(Px(2), 1)

\* C24 as stated: inter_aabb of a placed at the position of a sweep of a
\* non-zero delta returns none.
C24_PlacedGivesNone ==
    (geom.op = "placed" /\ geom.delta # ZERO) => ~geom.result.some

\* C24: a placed at the position reported by a sweep of a non-zero delta
\* just touches b: inter_aabb there returns a result whose delta is (0,0).
C24_PlacedJustTouches ==
    (geom.op = "placed" /\ geom.delta # ZERO)
        => /\ Touches(geom)
           /\ geom.result.some
           /\ geom.result.val.delta = ZERO

\* a diagonal sweep that hit after some travel, with a placed at its position
C24_Witness ==
    /\ geom.op = "placed"
    /\ K2(geom.delta) = 2
    /\ geom.first.val.time.v > 0
    /\ geom.result.some
    /\ geom.result.val.delta = ZERO

\* C25: a sweep of a non-zero delta returns none when no box of a's path
\* overlaps b, as for a of size (4,4) at (10,10) moving by (-20,0) against b
\* of size (6,6) at (0,0).
C25_NoFalsePositive ==
    /\ (geom.op = "sweep_aabb" /\ geom.delta # ZERO /\ ~PathMeets(geom))
          => geom.result = None
    /\ (geom.op = "sweep_aabb"
        /\ SweepTest(geom, <<Px(10), Px(10)>>, <<Px(-20), 0>>))
          => geom.result = None

\* the sweep of the unit test "miss": the path passes above b
C25_Witness ==
    /\ geom.op = "sweep_aabb"
    /\ SweepTest(geom, <<Px(10), Px(10)>>, <<Px(-20), 0>>)
    /\ ~PathMeets(geom)
    /\ geom.result = None

\* the ray of a call starts outside the box b
OriginOutside(g) ==
    \/ 2 * Abs(g.offset[1]) > g.b_size[1]
    \/ 2 * Abs(g.offset[2]) > g.b_size[2]

\* the ray of a call points at the centre of b
PointsAtCentre(g) ==
    /\ g.delta # ZERO
    /\ SgnVec(g.offset) = SgnVec(g.delta)
    /\ K2(g.delta) = 2 => Abs(g.offset[1]) = Abs(g.offset[2])

\* the distance from the origin of the ray to the face of b it enters by,
\* measured along an axis of the ray
NearFace(g) ==
    LET along(i) == IF g.delta[i] = 0 THEN 0
                    ELSE Abs(g.offset[i]) - (g.b_size[i] \div 2)
    IN  IF along(1) > along(2) THEN along(1) ELSE along(2)

OnInflatedBoundary(g) ==
    \/ g.delta[1] # 0 /\ g.delta[2] = 0 /\ Abs(g.offset[2]) = Reach(g)[2]
    \/ g.delta[2] # 0 /\ g.delta[1] = 0 /\ Abs(g.offset[1]) = Reach(g)[1]

\* C27: a sweep along exactly one axis by a box whose centre lies, on the
\* other axis, exactly on a boundary of the inflated target (a NaN time on
\* that side) returns none, as for a of size (24,24) at (288,372) moving
\* towards -x against b of size (72,72) at (588,420).
C27_NoHitOnDegenerateSlab ==
    (geom.op = "sweep_aabb" /\ OnInflatedBoundary(geom)) => geom.result = None

\* a box that slides along the top of the target, over it, hits nothing
C27_Witness ==
    /\ geom.op = "sweep_aabb"
    /\ geom.delta = <<Px(-10), 0>>
    /\ geom.offset[2] = -Reach(geom)[2]
    /\ geom.offset[1] < 0 /\ geom.offset[1] > -Px(5)
    /\ geom.result = None

\* a call of the given system has been made
Called(system) == call.op = "done" /\ call.system = system

\* the direction of motion along an axis of the entity: along dir when the
\* speed along it is positive, against it when negative, else the one kept
MovementDir(q, dir, kept) ==
    IF Dot(as_vec2(dir), q.velocity) > 0 THEN dir
    ELSE IF Dot(as_vec2(dir), q.velocity) < 0 THEN reverse(dir)
    ELSE kept

\* C28: rotate_gravity rotates the gravity of an entity exactly when the
\* current vertical direction differs from last_vertical_movement_dir,
\* equals the gravity direction, and turned_this_jump is false; it then
\* zeroes the acceleration, sets turned_this_jump and turns the gravity a
\* quarter clockwise when the current horizontal direction is the forward
\* direction of the gravity, and a quarter counterclockwise otherwise.
C28_RotateGravity ==
    Called("rotate_gravity")
        => LET q == call.q
               r == call.result.val
               g == q.g_dir
               vertical == MovementDir(q, g, q.last_vertical_movement_dir)
               horizontal ==
                   MovementDir(q, forward(g), q.last_horizontal_movement_dir)
               rotates == /\ vertical # q.last_vertical_movement_dir
                          /\ vertical = g
                          /\ ~q.turned_this_jump
           IN  /\ r.g_dir # g <=> rotates
               /\ rotates
                    => /\ r.acceleration = ZERO
                       /\ r.turned_this_jump
                       /\ as_vec2(r.g_dir)
                            = IF horizontal = forward(g)
                              THEN RotCW(as_vec2(g)) ELSE RotCCW(as_vec2(g))
               /\ ~rotates
                    => /\ r.acceleration = q.acceleration
                       /\ r.turned_this_jump = q.turned_this_jump
                       /\ r.rotation = q.rotation

\* an entity that starts to fall while it moves against the forward
\* direction of its gravity is turned counterclockwise
C28_Witness ==
    /\ Called("rotate_gravity")
    /\ call.q.g_dir = "Down"
    /\ call.q.velocity = <<Step, -Step>>
    /\ call.q.last_vertical_movement_dir = "Up"
    /\ call.q.acceleration # ZERO
    /\ call.result.val.g_dir = "Right"
    /\ call.result.val.acceleration = ZERO

\* the places in a buffer of the sweeps against the ground
GroundSweeps(buf) ==
    {i \in 1..Len(buf) : buf[i].kind = "Aabb" /\ buf[i].user_type = "Ground"}

\* the first of the ground sweeps of a buffer that no ground sweep is
\* earlier than (0 if there is none)
Winner(buf) ==
    IF GroundSweeps(buf) = {} THEN 0
    ELSE CHOOSE i \in GroundSweeps(buf) :
           \A j \in GroundSweeps(buf) :
              /\ ~FLt(buf[j].data.time, buf[i].data.time)
              /\ buf[j].data.time = buf[i].data.time => i <= j

\* C29: of the buffered sweeps against the ground, ground_detection moves
\* the entity by the one of least time, and by the first appended one of
\* those of least time; ray hits and sweeps of another tag have no part in
\* it: the outcome is the one for the buffer without them, and the entity
\* stays where it is when there is no ground sweep.
C29_FirstLeastGroundSweep ==
    Called("ground_detection")
        => LET buf == call.buf
               r == call.result.val.q
               w == Winner(buf)
               sweeps == SelectSeq(buf, LAMBDA e :
                            e.kind = "Aabb" /\ e.user_type = "Ground")
           IN  /\ w = 0 => r = call.q
               /\ w # 0
                    => r.translation
                         = VAdd(buf[w].data.position,
                                VScale(Px(1), buf[w].data.normal))
               /\ call.result.val = ground_detection(call.q, sweeps)

\* two ground sweeps of the same time come after a later one, a sweep
\* against the goal and a ray hit: the first of the two moves the entity
C29_Witness ==
    /\ Called("ground_detection")
    /\ Len(call.buf) = 3
    /\ call.buf[1].user_type = "Goal"
    /\ call.buf[2] = CollisionEvent(GroundName(1), "Ground", "Aabb",
                                    SweepAt(Fin(0, 1), "Right"))
    /\ call.buf[3] = CollisionEvent(GroundName(1), "Ground", "Aabb",
                                    SweepAt(Fin(0, 1), "Up"))
    /\ call.result.val.q.translation
         = VAdd(SweepAt(Fin(0, 1), "Right").position, <<Px(1), 0>>)

\* what is left of a vector that points into the surface of the given
\* normal: its component along the surface
Tangential(v, normal) == VSub(v, VScale(Dot(v, normal), normal))

\* C30: when ground_detection has a winning ground sweep, the position of
\* the entity becomes the position of the sweep plus its normal; the
\* velocity, and on its own the acceleration, keeps only its component along
\* the surface if its dot product with the reversed normal is positive, and
\* is left as it is otherwise.
C30_ResolvedAgainstWinner ==
    (Called("ground_detection") /\ Winner(call.buf) # 0)
        => LET q == call.q
               r == call.result.val.q
               sweep == call.buf[Winner(call.buf)].data
               into(v) == Dot(v, VScale(-1, sweep.normal)) > 0
           IN  /\ r.translation
                    = VAdd(sweep.position, VScale(Px(1), sweep.normal))
               /\ r.velocity = IF into(q.velocity)
                               THEN Tangential(q.velocity, sweep.normal)
                               ELSE q.velocity
               /\ r.acceleration = IF into(q.acceleration)
                                   THEN Tangential(q.acceleration, sweep.normal)
                                   ELSE q.acceleration

\* an entity that falls onto a floor while it is pushed along it: the
\* velocity loses its component into the floor, the acceleration is kept
C30_Witness ==
    /\ Called("ground_detection")
    /\ Winner(call.buf) # 0
    /\ call.buf[Winner(call.buf)].data.normal = as_vec2("Up")
    /\ call.q.velocity = <<-Step, -Step>>
    /\ call.q.acceleration = <<Step, 0>>
    /\ call.result.val.q.velocity = <<-Step, 0>>
    /\ call.result.val.q.acceleration = <<Step, 0>>

\* C31: the child box of the mover changes only when its gravity is rotated,
\* and then its width and height change places; the child rays change only
\* then, and are pointed along the new gravity with their length kept.  So
\* every ray is parallel to the gravity, of the length it was spawned with,
\* and the box has its spawned size after an even number of rotations and
\* the swapped size after an odd number.
C31_CollidersFollowGravity ==
    /\ \A i \in 1..Len(pl.rays) :
          pl.rays[i] = VScale(RAY_LENGTH, as_vec2(pl.g_dir))
    /\ pl.rect = IF pl.rotation % 2 = 0 THEN PLAYER_DIM
                 ELSE <<PLAYER_DIM[2], PLAYER_DIM[1]>>
    /\ pl.g_dir = before.g_dir
          => pl.rect = before.rect /\ pl.rays = before.rays
    /\ pl.g_dir # before.g_dir
          => /\ last = "rotate_gravity"
             /\ pl.rotation % 2 # before.rotation % 2
             /\ pl.rect = <<before.rect[2], before.rect[1]>>
             /\ \A i \in 1..Len(pl.rays) :
                   /\ AxisLen(pl.rays[i]) = AxisLen(before.rays[i])
                   /\ SgnVec(pl.rays[i]) = as_vec2(pl.g_dir)

\* the gravity has just been rotated from down to left: the box is swapped
\* and the rays point left
C31_Witness ==
    /\ last = "rotate_gravity"
    /\ before.g_dir = "Down"
    /\ pl.g_dir = "Left"
    /\ pl.rotation = 3
    /\ before.rect = PLAYER_DIM
    /\ pl.rect = <<PLAYER_DIM[2], PLAYER_DIM[1]>>
    /\ pl.rays[1] = <<-RAY_LENGTH, 0>>

\* C32: in a run of rotate_gravity, last_vertical_movement_dir keeps its
\* value if the velocity has no component along the gravity and else
\* becomes the direction of that component; likewise
\* last_horizontal_movement_dir and the component along the forward
\* direction of the gravity.
C32_LastDirections ==
    Called("rotate_gravity")
        => LET q == call.q
               r == call.result.val
               v_speed == Dot(as_vec2(q.g_dir), q.velocity)
               h_speed == Dot(as_vec2(forward(q.g_dir)), q.velocity)
           IN  /\ r.last_vertical_movement_dir
                    = IF v_speed = 0 THEN q.last_vertical_movement_dir
                      ELSE IF v_speed > 0 THEN q.g_dir ELSE reverse(q.g_dir)
               /\ r.last_horizontal_movement_dir
                    = IF h_speed = 0 THEN q.last_horizontal_movement_dir
                      ELSE IF h_speed > 0 THEN forward(q.g_dir)
                      ELSE reverse(forward(q.g_dir))

\* an entity that rises without moving sideways: the vertical direction is
\* taken from the velocity, the horizontal one is kept
C32_Witness ==
    /\ Called("rotate_gravity")
    /\ call.q.g_dir = "Left"
    /\ call.q.velocity = <<Step, 0>>
    /\ call.q.last_vertical_movement_dir = "Left"
    /\ call.q.last_horizontal_movement_dir = "Down"
    /\ call.result.val.last_vertical_movement_dir = "Right"
    /\ call.result.val.last_horizontal_movement_dir = "Down"

\* the truth of a < b for two times neither of which is NaN
Earlier(a, b) ==
    IF a.inf # 0 \/ b.inf # 0 THEN a.inf < b.inf
    ELSE (a.v < 0 /\ b.v >= 0)
         \/ (a.v < 0 /\ b.v < 0 /\ a.v * a.v * a.k2 > b.v * b.v * b.k2)
         \/ (a.v >= 0 /\ b.v >= 0 /\ a.v * a.v * a.k2 < b.v * b.v * b.k2)

\* C33: when exactly one of the two operands of c_min or c_max has a NaN
\* time of impact the reducer returns the other operand, whichever place
\* the NaN is in; when neither time is NaN c_min returns the operand of the
\* smaller time and c_max the operand of the larger.
C33_ReducersSetNaNAside ==
    (Called("c_min") \/ Called("c_max"))
        => LET a == call.q[1]
               b == call.q[2]
               r == call.result.val
           IN  /\ (is_nan(a.toi) /\ ~is_nan(b.toi)) => r = b
               /\ (~is_nan(a.toi) /\ is_nan(b.toi)) => r = a
               /\ (~is_nan(a.toi) /\ ~is_nan(b.toi) /\ Earlier(a.toi, b.toi))
                    => r = IF call.system = "c_min" THEN a ELSE b
               /\ (~is_nan(a.toi) /\ ~is_nan(b.toi) /\ Earlier(b.toi, a.toi))
                    => r = IF call.system = "c_min" THEN b ELSE a

\* c_max of a NaN time in the first place and a finite time in the second
C33_Witness ==
    /\ Called("c_max")
    /\ is_nan(call.q[1].toi)
    /\ call.q[2].toi = Fin(-2, 1)
    /\ call.result.val = call.q[2]

\* the axis of a cardinal unit vector
AxisOf(normal) == IF normal[1] # 0 THEN 1 ELSE 2

\* C34: after b is translated by the delta that inter_aabb reported for
\* overlapping boxes, the penetration on the axis of that delta is zero, and
\* inter_aabb on the translated b reports a delta of (0,0) and the normal it
\* reported before.
C34_ResolutionIsIdempotent ==
    geom.op = "pushed_out"
        => /\ Penetration(geom)[AxisOf(geom.first.val.normal)] = 0
           /\ geom.result.some
           /\ geom.result.val.delta = ZERO
           /\ geom.result.val.normal = geom.first.val.normal

\* boxes that overlapped by two pixels on y touch after the push upwards
C34_Witness ==
    /\ geom.op = "pushed_out"
    /\ geom.first.val.delta = <<0, Px(2)>>
    /\ geom.result.some
    /\ geom.result.val.delta = ZERO
    /\ geom.result.val.normal = <<0, 1>>

\* C35: when ground_detection and falling_detection are both about to run
\* on the player and its buffer, running them in one order and in the other
\* ends with the same on_ground.
C35_OrderOfResolvers ==
    (/\ sched = "Update" /\ ~panic.some
     /\ {"ground_detection", "falling_detection"} \subseteq todo)
        => falling_detection(ground_detection(pl, buffer[Player]).q,
                             buffer[Player]).on_ground
             = ground_detection(falling_detection(pl, buffer[Player]),
                                buffer[Player]).q.on_ground

\* C36: when the winning ground sweep of ground_detection has the normal of
\* the gravity direction, turned_this_jump is true afterwards; and while
\* turned_this_jump is true the gravity is not rotated, and it stays true
\* for as long as the entity is off the ground (until the player is spawned
\* anew).
C36_OverheadStrikeEndsTurning ==
    /\ [](LET buf == buffer[Player]
          IN  (/\ last = "ground_detection"
               /\ Winner(buf) # 0
               /\ buf[Winner(buf)].data.normal = as_vec2(before.g_dir))
                 => pl.turned_this_jump)
    /\ [][/\ pl.turned_this_jump
             => (last' = "spawn" \/ pl'.g_dir = pl.g_dir)
          /\ (pl.turned_this_jump /\ ~pl.on_ground)
             => (last' = "spawn" \/ pl'.turned_this_jump)]_vars

\* an entity that had not turned strikes a face whose normal is its gravity
\* direction
C36_Witness ==
    /\ last = "ground_detection"
    /\ Winner(buffer[Player]) # 0
    /\ buffer[Player][Winner(buffer[Player])].data.normal = as_vec2(before.g_dir)
    /\ ~before.turned_this_jump
    /\ ~pl.on_ground
    /\ pl.turned_this_jump

\* C37: control_jump changes the velocity, on_ground and turned_this_jump
\* only when jump is just pressed while on_ground is true: the velocity then
\* gets the jump impulse against the gravity and both flags become false;
\* pressed in the air, or not just pressed, it changes none of the three.
C37_JumpFromGroundOnly ==
    Called("control_jump")
        => LET q == call.q
               r == call.result.val
           IN  IF call.input.just_pressed /\ q.on_ground
               THEN /\ r.velocity
                         = VSub(q.velocity,
                                VScale(initial_jump_speed, as_vec2(q.g_dir)))
                    /\ ~r.on_ground
                    /\ ~r.turned_this_jump
               ELSE /\ r.velocity = q.velocity
                    /\ r.on_ground = q.on_ground
                    /\ r.turned_this_jump = q.turned_this_jump

\* jump is just pressed by an entity on the ground whose gravity is to the
\* left: it leaves the ground to the right
C37_Witness ==
    /\ Called("control_jump")
    /\ call.input.just_pressed
    /\ call.q.on_ground /\ call.q.turned_this_jump
    /\ call.q.g_dir = "Left"
    /\ call.q.velocity = ZERO
    /\ call.result.val.velocity = <<initial_jump_speed, 0>>
    /\ ~call.result.val.on_ground

\* the four cardinal unit vectors
Cardinals == {<<1, 0>>, <<-1, 0>>, <<0, 1>>, <<0, -1>>}

\* C38: a hit of Ray::intersect_aabb has a finite time of impact that is at
\* least 0 and at most the length of the ray, less than the length when the
\* ray starts outside the box, and its normal is a cardinal unit vector.
C38_HitWithinTheRay ==
    (geom.op = "intersect_aabb" /\ geom.result.some)
        => LET toi == geom.result.val.toi
           IN  /\ toi.inf = 0 /\ toi.k2 = K2(geom.delta)
               /\ toi.v >= 0 /\ toi.v <= AxisLen(geom.delta)
               /\ OriginOutside(geom) => toi.v < AxisLen(geom.delta)
               /\ geom.result.val.normal \in Cardinals

\* a ray that starts inside the box leaves it exactly at its end
C38_Witness ==
    /\ geom.op = "intersect_aabb"
    /\ ~OriginOutside(geom)
    /\ geom.result.some
    /\ geom.result.val.toi = Fin(AxisLen(geom.delta), K2(geom.delta))

\* C39: the normal of every Sweep of sweep_aabb, of a delta of (0,0) or not,
\* is one of (1,0), (-1,0), (0,1), (0,-1): Direction::from_vec2 of it is not
\* none, so its unwrap does not panic.
C39_SweepNormalIsCardinal ==
    (geom.op = "sweep_aabb" /\ geom.result.some)
        => /\ geom.result.val.normal \in Cardinals
           /\ from_vec2(geom.result.val.normal).some

\* a sweep of delta (0,0) of overlapping boxes, with a horizontal normal
C39_Witness ==
    /\ geom.op = "sweep_aabb"
    /\ geom.delta = ZERO
    /\ geom.result.some
    /\ from_vec2(geom.result.val.normal) = Some("Left")

====
